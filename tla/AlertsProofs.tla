---------------------------- MODULE AlertsProofs ----------------------------
(***************************************************************************)
(* What holds of Alerts for all keys and destinations, every day, cooldown *)
(* and ceiling, and any number of crawls and of crashes among them; and,   *)
(* after it, for windows of any number of answers and any z, what holds of *)
(* the rules that raise the events (AlertRules) and of the evidence they   *)
(* weigh (Evidence): a window's position, a pair's verdict and the shares  *)
(* a dashboard shows (Insights).                                           *)
(***************************************************************************)
EXTENDS Alerts, AlertRules, FoldTheorems, FiniteSetTheorems, TLAPS

Active == job.at \in {"event", "send", "mark"}
Sending == job.at \in {"send", "mark"}

\* No row is from the future of the dispatch, nor of the clock.
StampInv ==
  /\ \A i \in DOMAIN rows : rows[i].at <= now
  /\ Active => job.time <= now /\ \A i \in DOMAIN rows : rows[i].at <= job.time

\* What was sent, of the row the dispatch is at.
SentInv ==
  /\ HistoryIsTrue
  /\ job.at = "send" => Len(rows) \notin sent
  /\ job.at = "mark" => (Len(rows) \in sent <=> job.accepted)

\* The row that is being sent passed the cooldown.
QuietInv ==
  Sending => \A i \in DOMAIN rows :
    Delivered(i) /\ rows[i].key = rows[Len(rows)].key => rows[i].at < job.time - Cooldown

\* The dispatch knows how many were delivered in its day.
CountInv ==
  /\ Active => job.today = Cardinality(DeliveredSince(job.time - Day))
  /\ Sending => job.today < Ceiling

\* The inductive invariants: of the types, of the history, and of the count.
HistoryInv == TypeOK /\ StampInv /\ SentInv /\ QuietInv /\ CooldownKept
CountedInv == HistoryInv /\ CountInv /\ CeilingKept /\ TrueReasons

LEMMA JobTypes ==
  ASSUME ConstantsAssumption
  PROVE  NoDestination \in DestinationType /\ NoJob \in Jobs /\ NoJob.at = "none"
BY DEF NoDestination, DestinationType, NoJob, Jobs

\* The outcome of an event is one of the outcomes.
LEMMA ReasonType ==
  ASSUME NEW key
  PROVE  Reason(key) \in Outcomes \ {"delivered", "failed"}
BY DEF Reason, Outcomes

----------------------------------------------------------------------------
(* What the steps do. *)

\* An event that is recorded: one row more, of this dispatch.
LEMMA RecordEffect ==
  ASSUME ConstantsAssumption, TypeOK, Record
  PROVE  LET last == Len(rows) + 1 key == Head(job.todo)
         IN /\ key \in Keys
            /\ rows' = Append(rows, [key |-> key, at |-> job.time, outcome |-> Reason(key)])
            /\ rows' \in Seq(Rows) /\ Len(rows') = last /\ DOMAIN rows' = DOMAIN rows \cup {last}
            /\ last \notin DOMAIN rows /\ \A i \in DOMAIN rows : i < last
            /\ \A i \in DOMAIN rows : rows'[i] = rows[i]
            /\ rows'[last] = [key |-> key, at |-> job.time, outcome |-> Reason(key)]
            /\ job' \in Jobs /\ job'.time = job.time /\ job'.today = job.today
            /\ job.at = "event" /\ job'.at \in {"event", "send"}
            /\ job'.at = "send" <=> Reason(key) = "pending"
            /\ job'.at = "send" => job'.todo # <<>>
            /\ UNCHANGED <<now, dest, sent>>
<1> DEFINE key == Head(job.todo)
           row == [key |-> key, at |-> job.time, outcome |-> Reason(key)]
<1>1. key \in Keys /\ Tail(job.todo) \in Seq(Keys) /\ job \in Jobs /\ rows \in Seq(Rows)
      /\ job.time \in Nat
  BY DEF Record, TypeOK, Jobs
<1>2. row \in Rows
  BY <1>1, ReasonType DEF Rows
<1>3. rows' = Append(rows, row) /\ UNCHANGED <<now, dest, sent>> /\ job.at = "event"
  BY DEF Record
<1>4. /\ rows' \in Seq(Rows) /\ Len(rows') = Len(rows) + 1
      /\ DOMAIN rows' = DOMAIN rows \cup {Len(rows) + 1}
      /\ Len(rows) + 1 \notin DOMAIN rows /\ \A i \in DOMAIN rows : i < Len(rows) + 1
      /\ \A i \in DOMAIN rows : rows'[i] = rows[i]
      /\ rows'[Len(rows) + 1] = row
  <2> HIDE DEF row
  <2> QED BY <1>1, <1>2, <1>3
<1>5. /\ job' \in Jobs /\ job'.time = job.time /\ job'.today = job.today
      /\ job'.at \in {"event", "send"} /\ (job'.at = "send" <=> Reason(key) = "pending")
      /\ (job'.at = "send" => job'.todo # <<>>)
  <2>1. CASE Reason(key) = "pending"
    BY <2>1, <1>1 DEF Record, Jobs
  <2>2. CASE Reason(key) # "pending"
    BY <2>2, <1>1 DEF Record, Jobs
  <2> QED BY <2>1, <2>2
<1> QED BY <1>1, <1>3, <1>4, <1>5

\* A row that is marked: nothing but its outcome changes.
LEMMA MarkEffect ==
  ASSUME ConstantsAssumption, TypeOK, Mark
  PROVE  LET last == Len(rows)
         IN /\ last \in DOMAIN rows /\ rows[last].outcome = "pending"
            /\ rows' \in Seq(Rows) /\ Len(rows') = last /\ DOMAIN rows' = DOMAIN rows
            /\ \A i \in DOMAIN rows : /\ rows'[i].key = rows[i].key /\ rows'[i].at = rows[i].at
                                      /\ i # last => rows'[i].outcome = rows[i].outcome
            /\ rows'[last].outcome = IF job.accepted THEN "delivered" ELSE "failed"
            /\ job' \in Jobs /\ job'.time = job.time /\ job'.at = "event" /\ job.at = "mark"
            /\ job'.today = IF job.accepted THEN job.today + 1 ELSE job.today
            /\ UNCHANGED <<now, dest, sent>>
<1> DEFINE last == Len(rows)
           outcome == IF job.accepted THEN "delivered" ELSE "failed"
<1>1. rows \in Seq(Rows) /\ last > 0 /\ last \in Nat /\ job \in Jobs /\ job.at = "mark"
      /\ rows[last].outcome = "pending" /\ outcome \in Outcomes /\ job.todo # <<>>
  BY DEF Mark, TypeOK, Outcomes
<1>2. last \in DOMAIN rows /\ DOMAIN rows = 1..last /\ \A i \in DOMAIN rows : rows[i] \in Rows
  BY <1>1
<1>3. rows' = [rows EXCEPT ![last] = [rows[last] EXCEPT !.outcome = outcome]]
      /\ UNCHANGED <<now, dest, sent>>
  BY DEF Mark
<1>4. /\ [rows[last] EXCEPT !.outcome = outcome] \in Rows
      /\ [rows[last] EXCEPT !.outcome = outcome].outcome = outcome
      /\ [rows[last] EXCEPT !.outcome = outcome].key = rows[last].key
      /\ [rows[last] EXCEPT !.outcome = outcome].at = rows[last].at
  <2> HIDE DEF outcome
  <2> QED BY <1>1, <1>2 DEF Rows
<1>5. /\ rows' \in Seq(Rows) /\ Len(rows') = last /\ DOMAIN rows' = DOMAIN rows
      /\ \A i \in DOMAIN rows : i # last => rows'[i] = rows[i]
      /\ rows'[last] = [rows[last] EXCEPT !.outcome = outcome]
  <2> DEFINE row == [rows[last] EXCEPT !.outcome = outcome]
  <2>1. row \in Rows /\ rows' = [rows EXCEPT ![last] = row]
    BY <1>3, <1>4
  <2>2. rows \in [1..last -> Rows] /\ last \in 1..last
    BY <1>1, <1>2
  <2> HIDE DEF row, outcome
  <2>3. rows' \in [1..last -> Rows] /\ rows'[last] = row
        /\ \A i \in 1..last : i # last => rows'[i] = rows[i]
    BY <2>1, <2>2
  <2>4. rows' \in Seq(Rows) /\ Len(rows') = last /\ DOMAIN rows' = 1..last
    BY <2>3, <1>1
  <2> QED BY <2>3, <2>4, <1>2 DEF row
<1>6. /\ job' \in Jobs /\ job'.time = job.time /\ job'.at = "event"
      /\ job'.today = IF job.accepted THEN job.today + 1 ELSE job.today
  <2>1. job.todo \in Seq(Keys) /\ Tail(job.todo) \in Seq(Keys)
    BY <1>1 DEF Jobs
  <2>2. job' = [job EXCEPT !.at = "event", !.todo = Tail(job.todo),
                           !.today = IF job.accepted THEN job.today + 1 ELSE job.today]
    BY DEF Mark
  <2> DEFINE count == IF job.accepted THEN job.today + 1 ELSE job.today
             rest == Tail(job.todo)
  <2>3. count \in Nat /\ rest \in Seq(Keys)
    BY <1>1, <2>1 DEF Jobs
  <2>4. job' = [job EXCEPT !.at = "event", !.todo = rest, !.today = count]
    BY <2>2
  <2>5. job' \in Jobs /\ job'.time = job.time /\ job'.at = "event" /\ job'.today = count
    <3> HIDE DEF count, rest
    <3> QED BY <1>1, <2>3, <2>4 DEF Jobs
  <2> QED BY <2>5
<1> QED BY <1>1, <1>2, <1>3, <1>4, <1>5, <1>6

\* A message that is accepted, or not.
LEMMA DeliverEffect ==
  ASSUME ConstantsAssumption, TypeOK, NEW ok \in BOOLEAN, Deliver(ok)
  PROVE  /\ job.at = "send" /\ job'.at = "mark" /\ job' \in Jobs /\ job'.accepted = ok
         /\ job'.time = job.time /\ job'.today = job.today /\ job'.todo # <<>>
         /\ sent' = IF ok THEN sent \cup {Len(rows)} ELSE sent
         /\ Len(rows) \in DOMAIN rows /\ DOMAIN rows = 1..Len(rows)
         /\ rows[Len(rows)].outcome = "pending" /\ rows[Len(rows)].at = job.time
         /\ UNCHANGED <<now, dest, rows>>
<1>1. job \in Jobs /\ rows \in Seq(Rows) /\ Len(rows) > 0 /\ job.at = "send"
      /\ rows[Len(rows)].outcome = "pending" /\ rows[Len(rows)].at = job.time
      /\ job.todo # <<>>
  BY DEF Deliver, TypeOK
<1>2. job' = [job EXCEPT !.at = "mark", !.accepted = ok] /\ UNCHANGED <<now, dest, rows>>
      /\ sent' = IF ok THEN sent \cup {Len(rows)} ELSE sent
  BY DEF Deliver
<1>3. /\ job'.at = "mark" /\ job' \in Jobs /\ job'.accepted = ok
      /\ job'.time = job.time /\ job'.today = job.today /\ job'.todo # <<>>
  BY <1>1, <1>2 DEF Jobs
<1> QED BY <1>1, <1>2, <1>3

\* A dispatch that begins.
LEMMA OpenEffect ==
  ASSUME ConstantsAssumption, TypeOK, Open
  PROVE  /\ job.at = "raised" /\ job'.at = "event" /\ job' \in Jobs
         /\ job'.time = now /\ job'.today = Cardinality(DeliveredSince(now - Day))
         /\ UNCHANGED <<now, dest, rows, sent>>
<1>1. job \in Jobs /\ rows \in Seq(Rows) /\ now \in Nat /\ dest \in DestinationType
  BY DEF TypeOK
<1>2. Cardinality(DeliveredSince(now - Day)) \in Nat
  <2>1. IsFiniteSet(1..Len(rows))
    BY <1>1, FS_Interval
  <2>2. DeliveredSince(now - Day) \subseteq 1..Len(rows)
    BY <1>1 DEF DeliveredSince
  <2>3. IsFiniteSet(DeliveredSince(now - Day))
    BY <2>1, <2>2, FS_Subset
  <2> QED BY <2>3, FS_CardinalityType
<1>3. job' = [job EXCEPT !.at = "event", !.dest = dest, !.time = now,
                         !.today = Cardinality(DeliveredSince(now - Day))]
      /\ job.at = "raised" /\ UNCHANGED <<now, dest, rows, sent>>
  BY DEF Open
<1> DEFINE count == Cardinality(DeliveredSince(now - Day))
<1>4. count \in Nat /\ job' = [job EXCEPT !.at = "event", !.dest = dest, !.time = now,
                                          !.today = count]
  BY <1>2, <1>3
<1>5. job' \in Jobs /\ job'.at = "event" /\ job'.time = now /\ job'.today = count
  <2> HIDE DEF count
  <2> QED BY <1>4, <1>1 DEF Jobs
<1> QED BY <1>3, <1>5

----------------------------------------------------------------------------
(* The types, the history and the cooldown. *)

\* What every use of the invariant starts from.
LEMMA Typed ==
  ASSUME ConstantsAssumption, TypeOK
  PROVE  /\ Day \in Nat /\ Cooldown \in Nat /\ Ceiling \in Nat /\ now \in Nat
         /\ job \in Jobs /\ job.time \in Nat /\ job.today \in Nat
         /\ rows \in Seq(Rows) /\ Len(rows) \in Nat /\ DOMAIN rows = 1..Len(rows)
         /\ \A i \in DOMAIN rows : i \in Nat /\ rows[i] \in Rows /\ rows[i].at \in Nat
         /\ sent \subseteq DOMAIN rows
<1>1. \A i \in DOMAIN rows : i \in Nat /\ rows[i] \in Rows
  BY DEF TypeOK
<1>2. \A i \in DOMAIN rows : rows[i].at \in Nat
  BY <1>1 DEF Rows
<1>3. job.time \in Nat /\ job.today \in Nat
  BY DEF TypeOK, Jobs
<1> QED BY <1>1, <1>2, <1>3 DEF TypeOK, ConstantsAssumption

\* The invariant holds initially.
LEMMA InitHistory == ConstantsAssumption /\ Init => HistoryInv
<1> SUFFICES ASSUME ConstantsAssumption, Init PROVE HistoryInv
  OBVIOUS
<1>1. rows = <<>> /\ DOMAIN rows = {} /\ rows \in Seq(Rows) /\ sent = {} /\ now = 0
      /\ job = NoJob /\ job.at = "none" /\ job \in Jobs /\ dest \in DestinationType
  BY JobTypes DEF Init
<1>2. TypeOK
  BY <1>1 DEF TypeOK
<1> QED BY <1>1, <1>2 DEF HistoryInv, StampInv, SentInv, QuietInv, CooldownKept, HistoryIsTrue,
              Active, Sending

\* An event that passed the cooldown is of a key no recent delivery has.
LEMMA PendingIsQuiet ==
  ASSUME ConstantsAssumption, TypeOK, NEW key, Reason(key) = "pending", NEW i \in DOMAIN rows,
         Delivered(i), rows[i].key = key
  PROVE  rows[i].at < job.time - Cooldown
<1>1. ~ Fired(key)
  BY DEF Reason
<1> QED BY <1>1, Typed DEF Fired, DeliveredSince

LEMMA RecordHistory ==
  ASSUME ConstantsAssumption, HistoryInv, Record
  PROVE  HistoryInv'
<1> DEFINE last == Len(rows) + 1
           key == Head(job.todo)
<1>0. TypeOK
  BY DEF HistoryInv
<1>1. /\ rows' \in Seq(Rows) /\ Len(rows') = last /\ DOMAIN rows' = DOMAIN rows \cup {last}
      /\ last \notin DOMAIN rows /\ \A i \in DOMAIN rows : i < last /\ rows'[i] = rows[i]
      /\ rows'[last].key = key /\ rows'[last].at = job.time /\ rows'[last].outcome = Reason(key)
      /\ job' \in Jobs /\ job'.time = job.time
      /\ job.at = "event" /\ job'.at \in {"event", "send"}
      /\ (job'.at = "send" <=> Reason(key) = "pending")
      /\ (job'.at = "send" => job'.todo # <<>>)
      /\ UNCHANGED <<now, dest, sent>>
  BY <1>0, RecordEffect
<1>2. Reason(key) \notin {"delivered", "failed"}
  BY ReasonType
<1>3. last \in Nat /\ last > 0 /\ sent \subseteq DOMAIN rows /\ last \notin sent /\ now \in Nat
      /\ job.time \in Nat /\ dest \in DestinationType
  BY <1>0, <1>1, Typed DEF TypeOK
<1>4. TypeOK'
  BY <1>1, <1>3 DEF TypeOK
<1>5. StampInv'
  BY <1>1, <1>3 DEF HistoryInv, StampInv, Active
<1>6. SentInv'
  BY <1>1, <1>2, <1>3 DEF HistoryInv, SentInv, HistoryIsTrue, Delivered
<1>7. QuietInv'
  <2> SUFFICES ASSUME job'.at = "send", NEW i \in DOMAIN rows', Delivered(i)',
                      rows'[i].key = rows'[last].key
               PROVE  rows'[i].at < job'.time - Cooldown
    BY <1>1 DEF QuietInv, Sending
  <2>1. i \in DOMAIN rows /\ Delivered(i) /\ rows[i].key = key
    BY <1>1, <1>2 DEF Delivered
  <2> QED BY <1>0, <1>1, <2>1, PendingIsQuiet
<1>8. CooldownKept'
  BY <1>1, <1>3 DEF HistoryInv, CooldownKept, Delivered
<1> QED BY <1>4, <1>5, <1>6, <1>7, <1>8 DEF HistoryInv

LEMMA DeliverHistory ==
  ASSUME ConstantsAssumption, HistoryInv, NEW ok \in BOOLEAN, Deliver(ok)
  PROVE  HistoryInv'
<1> DEFINE last == Len(rows)
<1>0. TypeOK
  BY DEF HistoryInv
<1>1. /\ job.at = "send" /\ job'.at = "mark" /\ job' \in Jobs /\ job'.accepted = ok
      /\ job'.time = job.time /\ job'.todo # <<>>
      /\ sent' = IF ok THEN sent \cup {last} ELSE sent
      /\ last \in DOMAIN rows /\ DOMAIN rows = 1..last
      /\ rows[last].outcome = "pending" /\ rows[last].at = job.time
      /\ UNCHANGED <<now, dest, rows>>
  BY <1>0, DeliverEffect
<1>2. /\ last \in Nat /\ last > 0 /\ last \notin sent /\ sent \subseteq DOMAIN rows
      /\ \A i \in DOMAIN rows : i \in Nat /\ rows[i].at \in Nat
      /\ job.time \in Nat /\ Cooldown \in Nat
  BY <1>0, <1>1, Typed DEF HistoryInv, SentInv
<1>3. TypeOK'
  BY <1>0, <1>1, <1>2 DEF TypeOK
<1>4. StampInv'
  BY <1>1 DEF HistoryInv, StampInv, Active
<1>5. SentInv'
  BY <1>1, <1>2 DEF HistoryInv, SentInv, HistoryIsTrue, Delivered
<1>6. QuietInv'
  BY <1>1 DEF HistoryInv, QuietInv, Sending, Delivered
<1>7. CooldownKept'
  <2> SUFFICES ASSUME NEW i \in sent', NEW j \in sent', i < j, rows[i].key = rows[j].key, Delivered(i)
               PROVE  rows[j].at > rows[i].at + Cooldown
    BY <1>1 DEF CooldownKept, Delivered
  <2>1. i \in DOMAIN rows /\ j \in DOMAIN rows /\ i # last
    BY <1>1, <1>2
  <2>2. i \in sent
    BY <1>1, <2>1
  <2>3. CASE j = last
    <3>1. rows[i].at < job.time - Cooldown
      BY <1>1, <2>1, <2>3 DEF HistoryInv, QuietInv, Sending
    <3> QED BY <1>1, <1>2, <2>1, <2>3, <3>1
  <2>4. CASE j # last
    <3>1. j \in sent
      BY <1>1, <2>4
    <3> QED BY <2>2, <3>1 DEF HistoryInv, CooldownKept
  <2> QED BY <2>3, <2>4
<1> QED BY <1>3, <1>4, <1>5, <1>6, <1>7 DEF HistoryInv

LEMMA MarkHistory ==
  ASSUME ConstantsAssumption, HistoryInv, Mark
  PROVE  HistoryInv'
<1> DEFINE last == Len(rows)
<1>0. TypeOK
  BY DEF HistoryInv
<1>1. /\ last \in DOMAIN rows /\ rows[last].outcome = "pending"
      /\ rows' \in Seq(Rows) /\ Len(rows') = last /\ DOMAIN rows' = DOMAIN rows
      /\ \A i \in DOMAIN rows : /\ rows'[i].key = rows[i].key /\ rows'[i].at = rows[i].at
                                /\ i # last => rows'[i].outcome = rows[i].outcome
      /\ rows'[last].outcome = IF job.accepted THEN "delivered" ELSE "failed"
      /\ job' \in Jobs /\ job'.time = job.time /\ job'.at = "event" /\ job.at = "mark"
      /\ UNCHANGED <<now, dest, sent>>
  BY <1>0, MarkEffect
<1>2. DOMAIN rows = 1..last /\ last \in Nat /\ sent \subseteq DOMAIN rows
  BY <1>0, Typed
<1>3. TypeOK'
  BY <1>0, <1>1, <1>2 DEF TypeOK
<1>4. StampInv'
  BY <1>1 DEF HistoryInv, StampInv, Active
<1>5. SentInv'
  <2>1. last \in sent <=> job.accepted
    BY <1>1 DEF HistoryInv, SentInv
  <2>2. HistoryIsTrue'
    BY <1>1, <2>1 DEF HistoryInv, SentInv, HistoryIsTrue, Delivered
  <2> QED BY <1>1, <2>2 DEF SentInv
<1>6. QuietInv'
  BY <1>1 DEF QuietInv, Sending
<1>7. CooldownKept'
  <2> SUFFICES ASSUME NEW i \in sent, NEW j \in sent, i < j, rows[i].key = rows[j].key, Delivered(i)'
               PROVE  rows[j].at > rows[i].at + Cooldown
    BY <1>1, <1>2 DEF CooldownKept
  <2>1. i # last /\ Delivered(i)
    BY <1>1, <1>2 DEF Delivered
  <2> QED BY <2>1 DEF HistoryInv, CooldownKept
<1> QED BY <1>3, <1>4, <1>5, <1>6, <1>7 DEF HistoryInv

\* The other steps leave the history alone.
LEMMA OpenHistory ==
  ASSUME ConstantsAssumption, HistoryInv, Open
  PROVE  HistoryInv'
<1>0. TypeOK
  BY DEF HistoryInv
<1>1. /\ job.at = "raised" /\ job'.at = "event" /\ job' \in Jobs /\ job'.time = now
      /\ UNCHANGED <<now, dest, rows, sent>>
  BY <1>0, OpenEffect
<1> QED BY <1>0, <1>1 DEF HistoryInv, TypeOK, StampInv, SentInv, QuietInv, CooldownKept, HistoryIsTrue,
              Delivered, Active, Sending

LEMMA IdleHistory ==
  ASSUME ConstantsAssumption, HistoryInv, job' \in Jobs, job'.at \in {"none", "raised"},
         UNCHANGED <<now, dest, rows, sent>>
  PROVE  HistoryInv'
BY DEF HistoryInv, TypeOK, StampInv, SentInv, QuietInv, CooldownKept, HistoryIsTrue, Delivered, Active,
       Sending

LEMMA OutsideHistory ==
  ASSUME ConstantsAssumption, HistoryInv, now' \in Nat, now' >= now, dest' \in DestinationType,
         UNCHANGED <<rows, sent, job>>
  PROVE  HistoryInv'
<1>1. TypeOK'
  BY DEF HistoryInv, TypeOK
<1>2. StampInv'
  <2>1. TypeOK
    BY DEF HistoryInv
  <2> QED BY <2>1, Typed DEF HistoryInv, StampInv, Active
<1> QED BY <1>1, <1>2 DEF HistoryInv, SentInv, QuietInv, CooldownKept, HistoryIsTrue, Delivered, Sending

\* What a crawl raises is a job; and an idle worker has none.
LEMMA RaiseEffect ==
  ASSUME ConstantsAssumption, TypeOK, Raise
  PROVE  job' \in Jobs /\ job'.at = "raised" /\ UNCHANGED <<now, dest, rows, sent>>
<1>1. PICK events \in Batches : job' = [NoJob EXCEPT !.at = "raised", !.todo = events]
  BY DEF Raise
<1>2. events \in Seq(Keys)
  <2>1. PICK n \in 1..MaxBatch : events \in [1..n -> dest.rules]
    BY DEF Batches
  <2>2. dest.rules \subseteq Keys
    BY DEF TypeOK, DestinationType
  <2>3. n \in Nat
    BY DEF ConstantsAssumption
  <2>4. events \in [1..n -> Keys]
    BY <2>1, <2>2
  <2> QED BY <2>3, <2>4
<1>3. NoJob \in Jobs
  BY JobTypes
<1> QED BY <1>1, <1>2, <1>3 DEF Jobs, Raise

\* The steps of the environment.
LEMMA OutsideEffect ==
  ASSUME ConstantsAssumption, TypeOK, Tick \/ \E d \in Destinations : SetDestination(d)
  PROVE  now' \in Nat /\ now' >= now /\ dest' \in DestinationType /\ UNCHANGED <<rows, sent, job>>
<1>1. CASE Tick
  BY <1>1 DEF Tick, TypeOK
<1>2. CASE \E d \in Destinations : SetDestination(d)
  BY <1>2 DEF SetDestination, TypeOK, ConstantsAssumption
<1> QED BY <1>1, <1>2

\* Every step keeps the invariant.
LEMMA NextHistory ==
  ASSUME ConstantsAssumption, HistoryInv, [Next]_vars
  PROVE  HistoryInv'
<1>0. TypeOK
  BY DEF HistoryInv
<1>1. CASE Raise
  BY <1>0, <1>1, RaiseEffect, IdleHistory
<1>2. CASE Open
  BY <1>2, OpenHistory
<1>3. CASE Record
  BY <1>3, RecordHistory
<1>4. CASE \E ok \in BOOLEAN : Deliver(ok)
  BY <1>4, DeliverHistory
<1>5. CASE Mark
  BY <1>5, MarkHistory
<1>6. CASE Finish \/ Break
  BY <1>6, JobTypes, IdleHistory DEF Finish, Break
<1>7. CASE Tick \/ \E d \in Destinations : SetDestination(d)
  BY <1>0, <1>7, OutsideEffect, OutsideHistory
<1>8. CASE UNCHANGED vars
  BY <1>8 DEF vars, HistoryInv, TypeOK, StampInv, SentInv, QuietInv, CooldownKept, HistoryIsTrue,
              Delivered, Active, Sending
<1> QED BY <1>1, <1>2, <1>3, <1>4, <1>5, <1>6, <1>7, <1>8 DEF Next, Dispatch

THEOREM HistoryInvariant == Spec => []HistoryInv
<1>1. Init => HistoryInv
  BY ConstantsAssumption, InitHistory
<1>2. HistoryInv /\ [Next]_vars => HistoryInv'
  BY ConstantsAssumption, NextHistory
<1> QED BY <1>1, <1>2, PTL DEF Spec

\* Every variable keeps its type, and a dispatch that sends is at the row it wrote
\* last (dispatch.py: dispatch).
THEOREM TypeCorrect == Spec => []TypeOK
<1>1. HistoryInv => TypeOK
  BY DEF HistoryInv
<1> QED BY HistoryInvariant, <1>1, PTL

\* A row that was marked says whether its message went out, whatever broke
\* (dispatch.py: record before send, mark after).
THEOREM HistoryIsTrueAlways == Spec => []HistoryIsTrue
<1>1. HistoryInv => HistoryIsTrue
  BY DEF HistoryInv, SentInv
<1> QED BY HistoryInvariant, <1>1, PTL

\* The cooldown is kept between any two messages of one key (dispatch.py: fired_since).
THEOREM CooldownAlways == Spec => []CooldownKept
<1>1. HistoryInv => CooldownKept
  BY DEF HistoryInv
<1> QED BY HistoryInvariant, <1>1, PTL

----------------------------------------------------------------------------
(* The ceiling and the reasons. *)

\* Sets of rows are finite.
LEMMA RowsFinite ==
  ASSUME ConstantsAssumption, TypeOK, NEW S, S \subseteq DOMAIN rows
  PROVE  IsFiniteSet(S) /\ Cardinality(S) \in Nat
<1>1. IsFiniteSet(1..Len(rows))
  BY Typed, FS_Interval
<1>2. IsFiniteSet(S)
  BY <1>1, Typed, FS_Subset
<1> QED BY <1>2, FS_CardinalityType

\* What CeilingKept counts.
Burst(j) == {i \in Before(j) : Delivered(i)}

LEMMA CeilingIs == CeilingKept <=> \A j \in sent : Cardinality(Burst(j)) < Ceiling
BY DEF CeilingKept, Burst

\* Rows that were delivered were sent.
LEMMA DeliveredSent ==
  ASSUME TypeOK, HistoryIsTrue, NEW i \in DOMAIN rows, Delivered(i)
  PROVE  i \in sent
BY DEF HistoryIsTrue, Delivered

LEMMA InitCounted == ConstantsAssumption /\ Init => CountedInv
<1> SUFFICES ASSUME ConstantsAssumption, Init PROVE CountedInv
  OBVIOUS
<1>1. HistoryInv
  BY InitHistory
<1>2. rows = <<>> /\ DOMAIN rows = {} /\ sent = {} /\ job.at = "none"
  BY JobTypes DEF Init
<1> QED BY <1>1, <1>2 DEF CountedInv, CountInv, CeilingKept, TrueReasons, Active, Sending

LEMMA RecordCounted ==
  ASSUME ConstantsAssumption, CountedInv, Record
  PROVE  CountedInv'
<1> DEFINE key == Head(job.todo)
<1> PICK last : last = Len(rows) + 1
  OBVIOUS
<1>0. TypeOK /\ HistoryInv /\ HistoryIsTrue /\ HistoryInv'
  BY RecordHistory DEF CountedInv, HistoryInv, SentInv
<1>1. /\ DOMAIN rows' = DOMAIN rows \cup {last} /\ last \notin DOMAIN rows
      /\ \A i \in DOMAIN rows : i < last /\ rows'[i] = rows[i]
      /\ rows'[last].key = key /\ rows'[last].at = job.time /\ rows'[last].outcome = Reason(key)
      /\ job'.time = job.time /\ job'.today = job.today
      /\ job.at = "event" /\ job'.at \in {"event", "send"}
      /\ (job'.at = "send" <=> Reason(key) = "pending") /\ UNCHANGED sent
  BY <1>0, RecordEffect
<1>2. sent \subseteq DOMAIN rows
  BY <1>0, Typed
<1>3. CountInv'
  <2>1. DeliveredSince(job.time - Day)' = DeliveredSince(job.time - Day)
    <3>1. Reason(key) # "delivered"
      BY ReasonType
    <3> QED BY <1>1, <3>1 DEF DeliveredSince, Delivered
  <2>2. Reason(key) = "pending" => job.today < Ceiling
    BY <1>0, Typed DEF Reason
  <2> QED BY <1>1, <2>1, <2>2 DEF CountedInv, CountInv, Active, Sending
<1>4. CeilingKept'
  <2>1. \A j \in sent : Burst(j)' = Burst(j)
    BY <1>1, <1>2 DEF Burst, Before, Delivered
  <2>2. CeilingKept
    BY DEF CountedInv
  <2>3. \A j \in sent' : Cardinality(Burst(j)') < Ceiling
    BY <1>1, <2>1, <2>2, CeilingIs
  <2> QED BY <2>3 DEF CeilingKept, Burst
<1>5. TrueReasons'
  <2>1. \A j \in DOMAIN rows : Before(j)' = Before(j)
    BY <1>1, <1>2 DEF Before
  <2>2. \A j \in DOMAIN rows : \A i \in sent : Echoes(i, j)' <=> Echoes(i, j)
    BY <1>1, <1>2 DEF Echoes
  <2>3. \A j \in DOMAIN rows : /\ rows'[j].outcome = "cooldown" => \E i \in sent' : Echoes(i, j)'
                               /\ rows'[j].outcome = "daily_limit" => Cardinality(Before(j)') >= Ceiling
    BY <1>1, <2>1, <2>2 DEF CountedInv, TrueReasons
  <2>4. Reason(key) = "cooldown" => \E i \in sent' : Echoes(i, last)'
    <3> SUFFICES ASSUME Reason(key) = "cooldown" PROVE \E i \in sent' : Echoes(i, last)'
      OBVIOUS
    <3>1. Fired(key)
      BY DEF Reason
    <3>2. PICK i \in DOMAIN rows : /\ Delivered(i) /\ rows[i].at >= job.time - Cooldown
                                   /\ rows[i].key = key
      BY <3>1 DEF Fired, DeliveredSince
    <3>3. i \in sent
      BY <1>0, <3>2, DeliveredSent
    <3> QED BY <1>1, <3>2, <3>3 DEF Echoes
  <2>5. Reason(key) = "daily_limit" => Cardinality(Before(last)') >= Ceiling
    <3> SUFFICES ASSUME Reason(key) = "daily_limit" PROVE Cardinality(Before(last)') >= Ceiling
      OBVIOUS
    <3> DEFINE D == DeliveredSince(job.time - Day)
               B == Before(last)'
    <3>1. job.today >= Ceiling
      BY DEF Reason
    <3>2. job.today = Cardinality(D)
      BY <1>1 DEF CountedInv, CountInv, Active
    <3>3. D \subseteq B
      <4> SUFFICES ASSUME NEW i \in D PROVE i \in B
        OBVIOUS
      <4>1. i \in DOMAIN rows /\ Delivered(i) /\ rows[i].at >= job.time - Day
        BY DEF DeliveredSince
      <4>2. i \in sent
        BY <1>0, <4>1, DeliveredSent
      <4> QED BY <1>1, <4>1, <4>2 DEF Before
    <3>4. B \subseteq DOMAIN rows
      BY <1>1, <1>2 DEF Before
    <3> HIDE DEF D, B
    <3>5. IsFiniteSet(B) /\ Cardinality(B) \in Nat
      BY <1>0, <3>4, RowsFinite
    <3>6. Cardinality(D) <= Cardinality(B)
      BY <3>3, <3>5, FS_Subset
    <3>7. Cardinality(D) \in Nat /\ Ceiling \in Nat
      BY <1>0, <3>2, Typed
    <3>8. Cardinality(B) >= Ceiling
      BY <3>1, <3>2, <3>5, <3>6, <3>7
    <3> QED BY <3>8 DEF B
  <2>6. \A j \in DOMAIN rows' : /\ rows'[j].outcome = "cooldown" => \E i \in sent' : Echoes(i, j)'
                                /\ rows'[j].outcome = "daily_limit" => Cardinality(Before(j)') >= Ceiling
    BY <1>1, <2>3, <2>4, <2>5
  <2> QED BY <2>6 DEF TrueReasons
<1> QED BY <1>0, <1>3, <1>4, <1>5 DEF CountedInv

LEMMA DeliverCounted ==
  ASSUME ConstantsAssumption, CountedInv, NEW ok \in BOOLEAN, Deliver(ok)
  PROVE  CountedInv'
<1> DEFINE last == Len(rows)
<1>0. TypeOK /\ HistoryInv /\ HistoryIsTrue /\ HistoryInv'
  BY DeliverHistory DEF CountedInv, HistoryInv, SentInv
<1>1. /\ job.at = "send" /\ job'.at = "mark" /\ job'.time = job.time /\ job'.today = job.today
      /\ sent' = IF ok THEN sent \cup {last} ELSE sent
      /\ last \in DOMAIN rows /\ DOMAIN rows = 1..last
      /\ rows[last].outcome = "pending" /\ rows[last].at = job.time
      /\ UNCHANGED rows
  BY <1>0, DeliverEffect
<1>2. /\ last \in Nat /\ last \notin sent /\ sent \subseteq DOMAIN rows
      /\ \A i \in DOMAIN rows : i \in Nat
  BY <1>0, <1>1, Typed DEF HistoryInv, SentInv
<1>3. CountInv'
  <2>1. DeliveredSince(job.time - Day)' = DeliveredSince(job.time - Day)
    BY <1>1 DEF DeliveredSince, Delivered
  <2> QED BY <1>1, <2>1 DEF CountedInv, CountInv, Active, Sending
<1>4. CeilingKept'
  <2>1. \A j \in sent : Burst(j)' = Burst(j)
    BY <1>1, <1>2 DEF Burst, Before, Delivered
  <2>2. Cardinality(Burst(last)') < Ceiling
    <3> DEFINE D == DeliveredSince(job.time - Day)
               B == Burst(last)'
    <3>1. B \subseteq D
      BY <1>1, <1>2 DEF Burst, Before, DeliveredSince, Delivered
    <3>2. D \subseteq DOMAIN rows
      BY <1>1 DEF DeliveredSince, Delivered
    <3>3. job.today = Cardinality(D) /\ job.today < Ceiling
      BY <1>1 DEF CountedInv, CountInv, Active, Sending
    <3>4. Ceiling \in Nat
      BY <1>0, Typed
    <3> HIDE DEF D, B
    <3>5. IsFiniteSet(D) /\ Cardinality(D) \in Nat
      BY <1>0, <3>2, RowsFinite
    <3>6. IsFiniteSet(B) /\ Cardinality(B) <= Cardinality(D)
      BY <3>1, <3>5, FS_Subset
    <3>7. Cardinality(B) \in Nat
      BY <3>6, FS_CardinalityType
    <3>8. Cardinality(B) < Ceiling
      BY <3>3, <3>4, <3>5, <3>6, <3>7
    <3> QED BY <3>8 DEF B
  <2>3. CeilingKept
    BY DEF CountedInv
  <2>4. \A j \in sent' : Cardinality(Burst(j)') < Ceiling
    BY <1>1, <2>1, <2>2, <2>3, CeilingIs
  <2> QED BY <2>4 DEF CeilingKept, Burst
<1>5. TrueReasons'
  <2>1. \A j \in DOMAIN rows : Before(j)' = Before(j)
    BY <1>1, <1>2 DEF Before
  <2>2. \A j \in DOMAIN rows : \A i \in sent : Echoes(i, j) => Echoes(i, j)'
    BY <1>1, <1>2 DEF Echoes
  <2>3. \A j \in DOMAIN rows' : /\ rows'[j].outcome = "cooldown" => \E i \in sent' : Echoes(i, j)'
                                /\ rows'[j].outcome = "daily_limit" => Cardinality(Before(j)') >= Ceiling
    BY <1>1, <2>1, <2>2 DEF CountedInv, TrueReasons
  <2> QED BY <2>3 DEF TrueReasons
<1> QED BY <1>0, <1>3, <1>4, <1>5 DEF CountedInv

LEMMA MarkCounted ==
  ASSUME ConstantsAssumption, CountedInv, Mark
  PROVE  CountedInv'
<1> DEFINE last == Len(rows)
<1>0. TypeOK /\ HistoryInv /\ HistoryIsTrue /\ HistoryInv'
  BY MarkHistory DEF CountedInv, HistoryInv, SentInv
<1>1. /\ last \in DOMAIN rows /\ rows[last].outcome = "pending" /\ DOMAIN rows' = DOMAIN rows
      /\ \A i \in DOMAIN rows : /\ rows'[i].key = rows[i].key /\ rows'[i].at = rows[i].at
                                /\ i # last => rows'[i].outcome = rows[i].outcome
      /\ rows'[last].outcome = IF job.accepted THEN "delivered" ELSE "failed"
      /\ job'.time = job.time /\ job'.at = "event" /\ job.at = "mark"
      /\ job'.today = IF job.accepted THEN job.today + 1 ELSE job.today
      /\ UNCHANGED sent
  BY <1>0, MarkEffect
<1>2. /\ DOMAIN rows = 1..last /\ last \in Nat /\ sent \subseteq DOMAIN rows /\ rows[last].at = job.time
      /\ job.time \in Nat /\ Day \in Nat
  BY <1>0, <1>1, Typed DEF TypeOK
<1>3. CountInv'
  <2> DEFINE D == DeliveredSince(job.time - Day)
             E == DeliveredSince(job.time - Day)'
  <2>1. job.today = Cardinality(D)
    BY <1>1 DEF CountedInv, CountInv, Active
  <2>2. D \subseteq DOMAIN rows /\ last \notin D
    BY <1>1 DEF DeliveredSince, Delivered
  <2>3. E = IF job.accepted THEN D \cup {last} ELSE D
    <3>1. ASSUME NEW i \in DOMAIN rows, i # last PROVE i \in E <=> i \in D
      BY <1>1, <3>1 DEF DeliveredSince, Delivered
    <3>2. last \in E <=> job.accepted
      BY <1>1, <1>2 DEF DeliveredSince, Delivered
    <3>3. E \subseteq DOMAIN rows
      BY <1>1 DEF DeliveredSince
    <3> HIDE DEF E, D
    <3>4. CASE job.accepted
      <4>1. last \in E /\ last \in DOMAIN rows
        BY <1>1, <3>2, <3>4
      <4> HIDE DEF last
      <4>2. E = D \cup {last}
        BY <2>2, <3>1, <3>3, <4>1
      <4> QED BY <3>4, <4>2
    <3>5. CASE ~ job.accepted
      <4>1. last \notin E
        BY <3>2, <3>5
      <4> HIDE DEF last
      <4>2. E = D
        BY <2>2, <3>1, <3>3, <4>1
      <4> QED BY <3>5, <4>2
    <3> QED BY <3>4, <3>5
  <2>4. job'.today = Cardinality(E)
    <3> HIDE DEF D, E
    <3>1. IsFiniteSet(D)
      BY <1>0, <2>2, RowsFinite
    <3>2. Cardinality(D \cup {last}) = Cardinality(D) + 1
      BY <2>2, <3>1, FS_AddElement
    <3> QED BY <1>1, <2>1, <2>3, <3>2
  <2> QED BY <1>1, <2>4 DEF CountInv, Active, Sending
<1>4. CeilingKept'
  <2>1. \A j \in sent : Burst(j)' = Burst(j)
    BY <1>1, <1>2 DEF Burst, Before, Delivered
  <2>2. CeilingKept
    BY DEF CountedInv
  <2>3. \A j \in sent' : Cardinality(Burst(j)') < Ceiling
    BY <1>1, <2>1, <2>2, CeilingIs
  <2> QED BY <2>3 DEF CeilingKept, Burst
<1>5. TrueReasons'
  <2>1. \A j \in DOMAIN rows : Before(j)' = Before(j)
    BY <1>1, <1>2 DEF Before
  <2>2. \A j \in DOMAIN rows : \A i \in sent : Echoes(i, j) => Echoes(i, j)'
    BY <1>1, <1>2 DEF Echoes
  <2>3. rows'[last].outcome \notin {"cooldown", "daily_limit"}
    BY <1>1
  <2>4. \A j \in DOMAIN rows' : /\ rows'[j].outcome = "cooldown" => \E i \in sent' : Echoes(i, j)'
                                /\ rows'[j].outcome = "daily_limit" => Cardinality(Before(j)') >= Ceiling
    BY <1>1, <2>1, <2>2, <2>3 DEF CountedInv, TrueReasons
  <2> QED BY <2>4 DEF TrueReasons
<1> QED BY <1>0, <1>3, <1>4, <1>5 DEF CountedInv

\* The steps that write nothing: a dispatch that begins counts what it finds.
LEMMA QuietCounted ==
  ASSUME ConstantsAssumption, CountedInv, HistoryInv', CountInv', UNCHANGED <<rows, sent>>
  PROVE  CountedInv'
BY DEF CountedInv, CeilingKept, TrueReasons, Before, Echoes, Delivered

LEMMA OpenCounted ==
  ASSUME ConstantsAssumption, CountedInv, Open
  PROVE  CountedInv'
<1>0. TypeOK /\ HistoryInv'
  BY OpenHistory DEF CountedInv, HistoryInv
<1>1. /\ job'.at = "event" /\ job'.time = now /\ job'.today = Cardinality(DeliveredSince(now - Day))
      /\ UNCHANGED <<rows, sent>>
  BY <1>0, OpenEffect
<1>2. CountInv'
  BY <1>1 DEF CountInv, Active, Sending, DeliveredSince, Delivered
<1> QED BY <1>0, <1>1, <1>2, QuietCounted

LEMMA IdleCounted ==
  ASSUME ConstantsAssumption, CountedInv, HistoryInv', job'.at \in {"none", "raised"} \/ job' = job,
         UNCHANGED <<rows, sent>>
  PROVE  CountedInv'
<1>1. CountInv'
  BY DEF CountedInv, CountInv, Active, Sending, DeliveredSince, Delivered
<1> QED BY <1>1, QuietCounted

LEMMA NextCounted ==
  ASSUME ConstantsAssumption, CountedInv, [Next]_vars
  PROVE  CountedInv'
<1>0. TypeOK /\ HistoryInv /\ HistoryInv'
  BY NextHistory DEF CountedInv, HistoryInv
<1>1. CASE Raise
  BY <1>0, <1>1, RaiseEffect, IdleCounted
<1>2. CASE Open
  BY <1>2, OpenCounted
<1>3. CASE Record
  BY <1>3, RecordCounted
<1>4. CASE \E ok \in BOOLEAN : Deliver(ok)
  BY <1>4, DeliverCounted
<1>5. CASE Mark
  BY <1>5, MarkCounted
<1>6. CASE Finish \/ Break
  BY <1>0, <1>6, JobTypes, IdleCounted DEF Finish, Break
<1>7. CASE Tick \/ \E d \in Destinations : SetDestination(d)
  BY <1>0, <1>7, OutsideEffect, IdleCounted
<1>8. CASE UNCHANGED vars
  BY <1>0, <1>8, IdleCounted DEF vars
<1> QED BY <1>1, <1>2, <1>3, <1>4, <1>5, <1>6, <1>7, <1>8 DEF Next, Dispatch

THEOREM CountedInvariant == Spec => []CountedInv
<1>1. Init => CountedInv
  BY ConstantsAssumption, InitCounted
<1>2. CountedInv /\ [Next]_vars => CountedInv'
  BY ConstantsAssumption, NextCounted
<1> QED BY <1>1, <1>2, PTL DEF Spec

\* The ceiling of a day is kept over any number of crawls (dispatch.py: sent_today).
THEOREM CeilingAlways == Spec => []CeilingKept
<1>1. CountedInv => CeilingKept
  BY DEF CountedInv
<1> QED BY CountedInvariant, <1>1, PTL

\* What kept an event quiet did happen (dispatch.py: _suppressed).
THEOREM TrueReasonsAlways == Spec => []TrueReasons
<1>1. CountedInv => TrueReasons
  BY DEF CountedInv
<1> QED BY CountedInvariant, <1>1, PTL

-----------------------------------------------------------------------------
(* The bounds of a rate. *)

\* What the code's figures are: an order of digits, a positive and finite z.
Figures == Scale \in Nat /\ Scale > 0 /\ ZNum \in Nat /\ ZDen \in Nat

LEMMA TimesUp ==
  ASSUME NEW x \in Int, NEW y \in Int, NEW z \in Nat, x <= y
  PROVE  x * z <= y * z
<1>1. PICK d \in Nat : y = x + d
  <2>1. y - x \in Nat /\ y = x + (y - x)
    OBVIOUS
  <2> QED BY <2>1
<1>2. y * z = x * z + d * z /\ d * z \in Nat /\ x * z \in Int
  BY <1>1
<1> QED BY <1>2

LEMMA TimesDown ==
  ASSUME NEW x \in Int, NEW y \in Int, NEW z \in Nat, z > 0, x * z <= y * z
  PROVE  x <= y
<1> SUFFICES ASSUME y < x PROVE FALSE
  OBVIOUS
<1>1. y + 1 <= x
  OBVIOUS
<1>2. (y + 1) * z <= x * z
  BY <1>1, TimesUp
<1>3. (y + 1) * z = y * z + z /\ y * z \in Int /\ x * z \in Int
  OBVIOUS
<1> QED BY <1>2, <1>3

LEMMA RateIs ==
  ASSUME Figures, NEW c \in Nat, NEW n \in Nat, n > 0
  PROVE  /\ Rate(c, n) \in Nat
         /\ 2 * (Rate(c, n) * n) <= 2 * (c * Scale) + n /\ 2 * (c * Scale) + n < 2 * (Rate(c, n) * n) + 2 * n
<1> DEFINE a == 2 * c * Scale + n
           b == 2 * n
           q == a \div b
           cs == c * Scale
<1>1. \A x \in Nat, y \in Nat : y > 0 => (x \div y) \in Nat /\ (x \div y) * y <= x /\ x < ((x \div y) + 1) * y
  OBVIOUS
<1>2. cs \in Nat /\ a = 2 * cs + n /\ a \in Nat /\ b \in Nat /\ b > 0
  BY DEF Figures
<1>3. Rate(c, n) = q
  BY DEF Rate
<1> HIDE DEF a, b, cs
<1>4. q \in Nat /\ q * b <= a /\ a < (q + 1) * b
  BY <1>1, <1>2
<1> HIDE DEF q
<1>5. q * b = 2 * (q * n) /\ (q + 1) * b = 2 * (q * n) + 2 * n /\ q * n \in Nat
  BY <1>4 DEF b
<1> QED BY <1>2, <1>3, <1>4, <1>5 DEF cs

LEMMA HighOf ==
  ASSUME Figures, NEW c \in Nat, NEW n \in Nat
  PROVE  /\ High(c, n) \in 0..Scale /\ (High(c, n) = Scale \/ Beyond(High(c, n), c, n))
         /\ \A g \in 0..Scale : Beyond(g, c, n) => High(c, n) <= g
<1> DEFINE S == {Scale} \cup {g \in 0..Scale : Beyond(g, c, n)}
<1>1. S \in SUBSET Nat /\ S # {} /\ Scale \in Nat
  BY DEF Figures
<1>2. PICK x \in S : \A y \in S : x <= y
  BY <1>1, LeastOf
<1>3. High(c, n) \in S /\ \A y \in S : High(c, n) <= y
  <2>1. High(c, n) = CHOOSE h \in S : \A y \in S : h <= y
    BY DEF High, Min
  <2> QED BY <1>2, <2>1
<1> QED BY <1>1, <1>3

LEMMA HighCovers ==
  ASSUME Figures, NEW c \in Nat, NEW n \in Nat, c <= n
  PROVE  c * Scale <= High(c, n) * n
<1> DEFINE h == High(c, n)
<1>1. h \in Nat /\ (h = Scale \/ Beyond(h, c, n)) /\ Scale \in Nat
  BY HighOf DEF Figures
<1> HIDE DEF h
<1>2. CASE h = Scale
  <2>1. c * Scale <= n * Scale
    BY <1>1, TimesUp
  <2>2. n * Scale = h * n
    BY <1>1, <1>2
  <2> QED BY <2>1, <2>2 DEF h
<1>3. CASE Beyond(h, c, n)
  <2>1. c * Scale < h * n /\ c * Scale \in Nat /\ h * n \in Nat
    BY <1>1, <1>3 DEF Beyond
  <2> QED BY <2>1 DEF h
<1> QED BY <1>1, <1>2, <1>3

LEMMA LowCovers ==
  ASSUME Figures, NEW c \in Nat, NEW n \in Nat, c <= n
  PROVE  /\ Low(c, n) \in 0..Scale /\ Low(c, n) * n <= c * Scale
         /\ Low(c, n) = Scale - High(n - c, n) /\ n - c \in Nat
<1> DEFINE d == n - c
           h == High(d, n)
<1>1. d \in Nat /\ d <= n /\ c = n - d /\ Scale \in Nat
  BY DEF Figures
<1>2. Low(c, n) = Scale - h
  BY DEF Low
<1> HIDE DEF d
<1>3. h \in 0..Scale /\ d * Scale <= h * n
  BY <1>1, HighOf, HighCovers
<1> HIDE DEF h
<1>4. (Scale - h) * n = Scale * n - h * n /\ c * Scale = n * Scale - d * Scale /\ Scale * n = n * Scale
      /\ d * Scale \in Int /\ h * n \in Int /\ n * Scale \in Int
  BY <1>1, <1>3
<1>5. (Scale - h) * n <= c * Scale
  BY <1>3, <1>4
<1>6. Scale - h \in 0..Scale
  BY <1>1, <1>3
<1> QED BY <1>1, <1>2, <1>5, <1>6 DEF d, h

\* The band has the rate in it.
LEMMA BandHolds ==
  ASSUME Figures, NEW c \in Nat, NEW n \in Nat, n > 0, c <= n
  PROVE  Low(c, n) <= High(c, n) /\ Rate(c, n) <= High(c, n) /\ Low(c, n) <= Rate(c, n)
<1> DEFINE l == Low(c, n)
           h == High(c, n)
           r == Rate(c, n)
           cs == c * Scale
<1>1. l \in Nat /\ h \in Nat /\ r \in Nat /\ cs \in Nat
  <2>1. l \in 0..Scale /\ h \in 0..Scale /\ r \in Nat
    BY LowCovers, HighOf, RateIs
  <2> QED BY <2>1 DEF Figures
<1>2. l * n <= cs /\ cs <= h * n
  BY LowCovers, HighCovers
<1>3. 2 * (r * n) <= 2 * cs + n /\ 2 * cs + n < 2 * (r * n) + 2 * n
  BY RateIs
<1> HIDE DEF l, h, r, cs
<1>4. l * n \in Nat /\ h * n \in Nat /\ r * n \in Nat
  BY <1>1
<1>5. l <= h
  <2>1. l * n <= h * n
    BY <1>1, <1>2, <1>4
  <2> QED BY <1>1, <2>1, TimesDown
<1>6. r <= h
  <2> SUFFICES ASSUME h + 1 <= r PROVE FALSE
    BY <1>1
  <2>1. (h + 1) * n <= r * n
    BY <1>1, TimesUp
  <2>2. (h + 1) * n = h * n + n
    BY <1>1
  <2> QED BY <1>1, <1>2, <1>3, <1>4, <2>1, <2>2
<1>7. l <= r
  <2> SUFFICES ASSUME r + 1 <= l PROVE FALSE
    BY <1>1
  <2>1. (r + 1) * n <= l * n
    BY <1>1, TimesUp
  <2>2. (r + 1) * n = r * n + n
    BY <1>1
  <2> QED BY <1>1, <1>2, <1>3, <1>4, <2>1, <2>2
<1> QED BY <1>5, <1>6, <1>7 DEF l, h, r

\* Twice the answers in the same proportion never widen it.
LEMMA HighNarrows ==
  ASSUME Figures, NEW c \in Nat, NEW n \in Nat
  PROVE  High(2 * c, 2 * n) <= High(c, n)
<1> DEFINE h == High(c, n)
<1>1. h \in 0..Scale /\ (h = Scale \/ Beyond(h, c, n)) /\ Scale \in Nat /\ ZNum \in Nat /\ ZDen \in Nat /\ 2 * c \in Nat /\ 2 * n \in Nat
  BY HighOf DEF Figures
<1>2. High(2 * c, 2 * n) \in 0..Scale /\ \A g \in 0..Scale : Beyond(g, 2 * c, 2 * n) => High(2 * c, 2 * n) <= g
  BY <1>1, HighOf
<1> HIDE DEF h
<1>3. CASE h = Scale
  BY <1>1, <1>2, <1>3 DEF h
<1>4. CASE Beyond(h, c, n)
  <2> DEFINE x == h * n - c * Scale
             w == n * h * (Scale - h)
  <2>1. h \in Nat /\ Scale - h \in Nat
    BY <1>1
  <2>2. x \in Int /\ x > 0
    BY <1>1, <1>4, <2>1 DEF Beyond
  <2>3. w \in Nat
    BY <2>1
  <2>4. ZDen * x * x > ZNum * n * h * (Scale - h)
    BY <1>4 DEF Beyond
  <2>5. h * (2 * n) - (2 * c) * Scale = 2 * x /\ h * (2 * n) = 2 * (h * n) /\ (2 * c) * Scale = 2 * (c * Scale)
    BY <1>1, <2>1
  <2>6. ZNum * n * h * (Scale - h) = ZNum * w /\ ZNum * (2 * n) * h * (Scale - h) = 2 * (ZNum * w)
    BY <1>1, <2>1
  <2>7. h * (2 * n) > (2 * c) * Scale
    BY <1>1, <2>1, <2>2, <2>5
  <2> HIDE DEF x, w
  <2>8. ZDen * (2 * x) * (2 * x) = 4 * (ZDen * x * x) /\ ZDen * x * x \in Int /\ ZNum * w \in Nat
    BY <1>1, <2>2, <2>3
  <2>9. ZDen * (2 * x) * (2 * x) > 2 * (ZNum * w)
    BY <2>4, <2>6, <2>8
  <2>10. Beyond(h, 2 * c, 2 * n)
    <3>1. ZDen * (h * (2 * n) - (2 * c) * Scale) * (h * (2 * n) - (2 * c) * Scale) > ZNum * (2 * n) * h * (Scale - h)
      BY <2>5, <2>6, <2>9
    <3> QED BY <2>7, <3>1 DEF Beyond
  <2> QED BY <1>1, <1>2, <2>10 DEF h
<1> QED BY <1>1, <1>3, <1>4

LEMMA LowNarrows ==
  ASSUME Figures, NEW c \in Nat, NEW n \in Nat, c <= n
  PROVE  Low(c, n) <= Low(2 * c, 2 * n)
<1> DEFINE d == n - c
<1>1. d \in Nat /\ 2 * n - 2 * c = 2 * d /\ 2 * c \in Nat /\ 2 * n \in Nat /\ 2 * c <= 2 * n /\ 2 * d \in Nat /\ Scale \in Nat
  BY DEF Figures
<1>2. Low(c, n) = Scale - High(d, n) /\ Low(2 * c, 2 * n) = Scale - High(2 * d, 2 * n)
  BY <1>1 DEF Low
<1> HIDE DEF d
<1>3. High(d, n) \in 0..Scale /\ High(2 * d, 2 * n) \in 0..Scale /\ High(2 * d, 2 * n) <= High(d, n)
  BY <1>1, HighOf, HighNarrows
<1> QED BY <1>1, <1>2, <1>3

-----------------------------------------------------------------------------
(* The rules. *)

\* The positions of a window, of any number of pairs.
PositionsOf(N, ps) ==
  DOMAIN ps = 1..N /\ \A i \in 1..N : ps[i].ok \in Nat /\ ps[i].cited \in Nat
LEMMA SumOfPositions ==
  ASSUME NEW N \in Nat, NEW ps, PositionsOf(N, ps)
  PROVE  Sum(ps, "ok") \in Nat /\ Sum(ps, "cited") \in Nat
<1> DEFINE f == [i \in 1..N |-> ps[i].ok]
           g == [i \in 1..N |-> ps[i].cited]
<1>1. DOMAIN ps = 1..N /\ IsFiniteSet(1..N)
  BY FS_Interval DEF PositionsOf
<1>2. f \in [1..N -> Int] /\ (\A i \in 1..N : f[i] \in Nat) /\ DOMAIN f = 1..N
  BY DEF PositionsOf
<1>3. g \in [1..N -> Int] /\ (\A i \in 1..N : g[i] \in Nat) /\ DOMAIN g = 1..N
  BY DEF PositionsOf
<1>4. Sum(ps, "ok") = SumFunction(f)
  BY <1>1 DEF Sum, Over, Total
<1>5. Sum(ps, "cited") = SumFunction(g)
  BY <1>1 DEF Sum, Over, Total
<1> HIDE DEF f, g
<1>6. SumFunction(f) = SumFunctionOnSet(f, 1..N) /\ SumFunction(g) = SumFunctionOnSet(g, 1..N)
  BY <1>2, <1>3 DEF SumFunction
<1>7. SumFunctionOnSet(f, 1..N) \in Nat
  BY <1>1, <1>2, SumNat
<1>8. SumFunctionOnSet(g, 1..N) \in Nat
  BY <1>1, <1>3, SumNat
<1> QED BY <1>4, <1>5, <1>6, <1>7, <1>8

LEMMA OneEngine ==
  ASSUME NEW N \in Nat, NEW ps, PositionsOf(N, ps), NEW e
  PROVE  \E n \in Nat : PositionsOf(n, By(ps, e))
<1> DEFINE I == {i \in 1..N : ps[i].engine = e}
<1>1. By(ps, e) = Entries(ps, I)
  BY DEF By, Those, PositionsOf
<1>2. IsFiniteSet(I) /\ I \in SUBSET Int /\ I \in SUBSET (1..N)
  BY PlacesOf
<1> HIDE DEF I
<1>3. Cardinality(I) \in Nat
  BY <1>2, FS_CardinalityType
<1>4. DOMAIN By(ps, e) = 1..Cardinality(I) /\ \A n \in 1..Cardinality(I) : InTurn(I)[n] \in I /\ By(ps, e)[n] = ps[InTurn(I)[n]]
  BY <1>1, <1>2, EntriesOf
<1>5. PositionsOf(Cardinality(I), By(ps, e))
  BY <1>2, <1>4 DEF PositionsOf
<1> QED BY <1>3, <1>5

LEMMA EngineTotals ==
  ASSUME NEW N \in Nat, NEW ps, PositionsOf(N, ps), NEW e
  PROVE  Trials(ps, e) \in Nat /\ CitedOf(ps, e) \in Nat /\ CitedOf(ps, e) <= Trials(ps, e)
<1>1. PICK n \in Nat : PositionsOf(n, By(ps, e))
  BY OneEngine
<1> DEFINE mine == By(ps, e)
<1>2. PositionsOf(n, mine)
  BY <1>1
<1> HIDE DEF mine
<1>3. Sum(mine, "ok") \in Nat /\ Sum(mine, "cited") \in Nat
  BY <1>2, SumOfPositions
<1>4. Trials(ps, e) = Sum(mine, "ok") /\ CitedOf(ps, e) = Least(Sum(mine, "cited"), Trials(ps, e))
  BY DEF Trials, CitedOf, mine
<1> QED BY <1>3, <1>4 DEF Least

\* A fall of one window is none of the other, and sampling alone does not explain it.
LEMMA FallIsReal ==
  ASSUME Figures, MinTrials \in Nat, MinTrials > 0,
         NEW c \in Nat, NEW n \in Nat, c <= n, NEW c0 \in Nat, NEW n0 \in Nat, c0 <= n0, Apart(c, n, c0, n0)
  PROVE  /\ n > 0 /\ ~ Apart(c0, n0, c, n) /\ Rate(c, n) < Low(c0, n0)
         /\ Apart(2 * c, 2 * n, 2 * c0, 2 * n0)
<1>1. n >= MinTrials /\ n0 >= MinTrials /\ n > 0 /\ n0 > 0 /\ High(c, n) < Low(c0, n0)
  BY DEF Apart
<1>2. Low(c, n) <= High(c, n) /\ Rate(c, n) <= High(c, n) /\ Low(c0, n0) <= High(c0, n0) /\ Rate(c, n) \in Nat
  BY <1>1, BandHolds, RateIs
<1>3. 2 * c \in Nat /\ 2 * n \in Nat /\ 2 * c0 \in Nat /\ 2 * n0 \in Nat /\ 2 * c0 <= 2 * n0 /\ Scale \in Nat
  BY DEF Figures
<1>4. /\ High(c, n) \in Int /\ High(c0, n0) \in Int /\ High(2 * c, 2 * n) \in Int
      /\ Low(c, n) \in Int /\ Low(c0, n0) \in Int /\ Low(2 * c0, 2 * n0) \in Int
  <2>1. High(c, n) \in 0..Scale /\ High(c0, n0) \in 0..Scale /\ High(2 * c, 2 * n) \in 0..Scale
    BY <1>3, HighOf
  <2>2. Low(c, n) \in 0..Scale /\ Low(c0, n0) \in 0..Scale /\ Low(2 * c0, 2 * n0) \in 0..Scale
    BY <1>3, LowCovers
  <2> QED BY <2>1, <2>2
<1>5. High(2 * c, 2 * n) <= High(c, n) /\ Low(c0, n0) <= Low(2 * c0, 2 * n0)
  BY HighNarrows, LowNarrows
<1>6. ~ Apart(c0, n0, c, n)
  BY <1>1, <1>2, <1>4 DEF Apart
<1>7. Apart(2 * c, 2 * n, 2 * c0, 2 * n0)
  BY <1>1, <1>4, <1>5 DEF Apart
<1> QED BY <1>1, <1>2, <1>4, <1>6, <1>7

LEMMA FallsAreReal ==
  ASSUME Figures, MinTrials \in Nat, MinTrials > 0, NEW N \in Nat, NEW ps, PositionsOf(N, ps),
         NEW M \in Nat, NEW previous, PositionsOf(M, previous), NEW e, Fell(ps, previous, e)
  PROVE  /\ ~ Fell(previous, ps, e) /\ \A v \in Silent(ps, previous) : v.subject # e
         /\ Rate(CitedOf(ps, e), Trials(ps, e)) < Low(CitedOf(previous, e), Trials(previous, e))
         /\ Apart(2 * CitedOf(ps, e), 2 * Trials(ps, e), 2 * CitedOf(previous, e), 2 * Trials(previous, e))
<1> DEFINE c == CitedOf(ps, e)
           n == Trials(ps, e)
           c0 == CitedOf(previous, e)
           n0 == Trials(previous, e)
<1>1. c \in Nat /\ n \in Nat /\ c <= n /\ c0 \in Nat /\ n0 \in Nat /\ c0 <= n0
  BY EngineTotals
<1>2. Apart(c, n, c0, n0) /\ (Fell(previous, ps, e) <=> Apart(c0, n0, c, n))
  BY DEF Fell
<1>3. \A v \in Silent(ps, previous) : Trials(ps, v.subject) = 0
  BY DEF Silent, Event
<1> HIDE DEF c, n, c0, n0
<1>4. n > 0 /\ ~ Apart(c0, n0, c, n) /\ Rate(c, n) < Low(c0, n0) /\ Apart(2 * c, 2 * n, 2 * c0, 2 * n0)
  BY <1>1, <1>2, FallIsReal
<1>5. \A v \in Silent(ps, previous) : v.subject # e
  <2> SUFFICES ASSUME NEW v \in Silent(ps, previous), v.subject = e PROVE FALSE
    OBVIOUS
  <2>1. n = 0
    BY <1>3 DEF n
  <2> QED BY <1>1, <1>4, <2>1
<1> QED BY <1>2, <1>4, <1>5 DEF c, n, c0, n0

-----------------------------------------------------------------------------
(* A set as a list. *)

\* A list that has each member of a set, and only those.
ListsAll(T, s) == s \in Seq(T) /\ \A x \in T : \E n \in 1..Len(s) : s[n] = x
LEMMA ListedOf ==
  ASSUME NEW S, IsFiniteSet(S)
  PROVE  ListsAll(S, Listed(S))
<1> DEFINE some(s) == CHOOSE x \in s : TRUE
           pick == [s \in (SUBSET S) \ {{}} |-> some(s)]
           V == [s \in SUBSET S |-> {q \in Seq(S) : ListsAll(s, q)}]
           step == [s \in (SUBSET S) \ {{}} |-> [v \in Seq(S) |-> Append(v, some(s))]]
           Solves(t) == t = [s \in SUBSET S |-> IF s = {} THEN <<>> ELSE Append(t[s \ {some(s)}], some(s))]
<1>1. \A s \in (SUBSET S) \ {{}} : pick[s] = some(s) /\ some(s) \in s /\ \A v \in Seq(S) : step[s][v] = Append(v, some(s))
  OBVIOUS
<1>2. Picks(S, pick)
  BY <1>1 DEF Picks
<1>3. \A s \in SUBSET S : \A q : q \in V[s] <=> q \in Seq(S) /\ ListsAll(s, q)
  OBVIOUS
<1> HIDE DEF pick, V, step, some
<1>4. Stays(S, pick, <<>>, step, V)
  <2>1. <<>> \in V[{}]
    <3>1. <<>> \in Seq(S) /\ <<>> \in Seq({})
      OBVIOUS
    <3> QED BY <1>3, <3>1 DEF ListsAll
  <2>2. ASSUME NEW s \in (SUBSET S) \ {{}}, NEW v \in V[s \ {pick[s]}] PROVE step[s][v] \in V[s]
    <3> DEFINE x == some(s)
               w == Append(v, x)
    <3>1. v \in Seq(S) /\ ListsAll(s \ {x}, v) /\ x \in s /\ x \in S /\ s \in SUBSET S
      BY <1>1, <1>3
    <3>2. step[s][v] = w
      BY <1>1, <3>1
    <3> HIDE DEF x
    <3>3. v \in Seq(s \ {x}) /\ \A y \in s \ {x} : \E n \in 1..Len(v) : v[n] = y
      BY <3>1 DEF ListsAll
    <3>4. v \in Seq(s) /\ w \in Seq(S)
      BY <3>1, <3>3
    <3>5. w \in Seq(s) /\ Len(w) = Len(v) + 1 /\ Len(v) \in Nat /\ w[Len(v) + 1] = x /\ \A n \in 1..Len(v) : w[n] = v[n]
      BY <3>1, <3>4
    <3> HIDE DEF w
    <3>6. \A y \in s : \E n \in 1..Len(w) : w[n] = y
      <4> SUFFICES ASSUME NEW y \in s PROVE \E n \in 1..Len(w) : w[n] = y
        OBVIOUS
      <4>1. CASE y = x
        BY <3>5, <4>1
      <4>2. CASE y # x
        <5>1. PICK n \in 1..Len(v) : v[n] = y
          BY <3>3, <4>2
        <5>2. n \in 1..Len(w) /\ w[n] = y
          BY <3>5, <5>1
        <5> QED BY <5>2
      <4> QED BY <4>1, <4>2
    <3>7. ListsAll(s, w)
      BY <3>4, <3>5, <3>6 DEF ListsAll
    <3>8. w \in V[s]
      BY <1>3, <3>1, <3>4, <3>7
    <3> QED BY <3>2, <3>8
  <2> QED BY <2>1, <2>2 DEF Stays
<1>5. \A s \in (SUBSET S) \ {{}} : s \ {pick[s]} \in SUBSET S /\ \A v \in V[s \ {pick[s]}] : v \in Seq(S)
  BY <1>3
<1>6. ASSUME NEW t PROVE /\ IsFold(S, pick, <<>>, step, t) => FoldsIn(S, pick, <<>>, step, V, t)
                         /\ Solves(t) => FoldsIn(S, pick, <<>>, step, V, t)
  <2>1. ASSUME Solves(t), NEW s \in (SUBSET S) \ {{}}, t[s \ {pick[s]}] \in V[s \ {pick[s]}]
        PROVE  t[s] = step[s][t[s \ {pick[s]}]]
    <3>1. t[s] = Append(t[s \ {some(s)}], some(s))
      BY <2>1
    <3> HIDE DEF Solves
    <3> QED BY <1>1, <1>5, <2>1, <3>1
  <2>2. Solves(t) => t[{}] = <<>>
    OBVIOUS
  <2>3. Solves(t) => FoldsIn(S, pick, <<>>, step, V, t)
    <3> HIDE DEF Solves
    <3> QED BY <2>1, <2>2 DEF FoldsIn
  <2>4. IsFold(S, pick, <<>>, step, t) => FoldsIn(S, pick, <<>>, step, V, t)
    BY DEF IsFold, FoldsIn
  <2> QED BY <2>3, <2>4
<1>7. \E t : Solves(t)
  <2>1. PICK t : IsFold(S, pick, <<>>, step, t)
    BY <1>2, FoldExists
  <2>2. \A s \in SUBSET S : t[s] \in V[s]
    BY <1>2, <1>4, <1>6, <2>1, FoldStays
  <2>3. \A s \in (SUBSET S) \ {{}} : step[s][t[s \ {pick[s]}]] = Append(t[s \ {some(s)}], some(s))
    BY <1>1, <1>5, <2>2
  <2>4. Solves(t)
    BY <2>1, <2>3 DEF IsFold
  <2> QED BY <2>4
<1> DEFINE u == CHOOSE t : Solves(t)
<1>8. Solves(u)
  BY <1>7
<1>9. Listed(S) = u[S]
  BY DEF Listed, FoldSet, MapThenFoldSet, some
<1> HIDE DEF u, Solves
<1>10. \A s \in SUBSET S : u[s] \in V[s]
  BY <1>2, <1>4, <1>6, <1>8, FoldStays
<1> QED BY <1>3, <1>9, <1>10

\* The first of a list sorted by weight: what they leave out is no lighter.
Lighter(s, weight) == {p \in (DOMAIN s) \X (DOMAIN s) : weight[s[p[1]]] < weight[s[p[2]]]}
Lightest(S, weight, k, t) ==
  /\ Len(t) \in Nat /\ DOMAIN t = 1..Len(t) /\ Members(t) \in SUBSET S /\ Len(t) <= k
  /\ \A x \in S \ Members(t) : Len(t) = k /\ \A y \in Members(t) : weight[y] <= weight[x]
ListsIn(N, S, s) == DOMAIN s = 1..N /\ (\A n \in 1..N : s[n] \in S) /\ \A x \in S : \E n \in 1..N : s[n] = x
Weighs(N, s, weight) == \A i \in 1..N : weight[s[i]] \in Int
LEMMA WeightsOrder ==
  ASSUME NEW N \in Nat, NEW s, DOMAIN s = 1..N, NEW weight, Weighs(N, s, weight)
  PROVE  /\ \A i, j \in 1..N : <<i, j>> \in Lighter(s, weight) <=> weight[s[i]] < weight[s[j]]
         /\ Weakly(1..N, Lighter(s, weight))
<1> DEFINE L == Lighter(s, weight)
           D == 1..N
<1>1. \A i, j \in D : <<i, j>> \in L <=> weight[s[i]] < weight[s[j]]
  BY DEF Lighter
<1>2. \A i \in D : weight[s[i]] \in Int
  BY DEF Weighs
<1> HIDE DEF L, D
<1>3. \A i, j \in D : <<i, j>> \in L => <<j, i>> \notin L
  BY <1>1, <1>2
<1>4. \A i, j, k \in D : <<i, k>> \in L => <<i, j>> \in L \/ <<j, k>> \in L
  BY <1>1, <1>2
<1> QED BY <1>1, <1>3, <1>4 DEF Weakly, L, D

CutAt(m, N, k) == m <= N /\ m <= k /\ (m < N => m = k)
FirstOf(t, u, m) == t = [n \in 1..m |-> u[n]]
LEMMA FirstsAreLightest ==
  ASSUME NEW N \in Nat, NEW S, NEW s, ListsIn(N, S, s), NEW weight, Weighs(N, s, weight),
         NEW at, NEW u, IsSort(s, Lighter(s, weight), at, u),
         NEW m \in Nat, NEW k \in Nat, CutAt(m, N, k), NEW t, FirstOf(t, u, m)
  PROVE  Lightest(S, weight, k, t)
<1> DEFINE D == 1..N
           L == Lighter(s, weight)
<1>1. DOMAIN s = D /\ (\A n \in D : s[n] \in S) /\ \A x \in S : \E n \in D : s[n] = x
  BY DEF ListsIn
<1>2. \A i, j \in D : <<i, j>> \in L <=> weight[s[i]] < weight[s[j]]
  BY <1>1, WeightsOrder
<1>3. \A i \in D : weight[s[i]] \in Int
  BY DEF Weighs
<1>4. m <= N /\ m <= k /\ (m < N => m = k) /\ \A n \in 1..m : n \in D
  BY DEF CutAt
<1>5. /\ (\A n \in D : at[n] \in D) /\ (\A i \in D : \E n \in D : at[n] = i)
      /\ (\A i, j \in D : i < j => <<at[j], at[i]>> \notin L)
      /\ u = [n \in D |-> s[at[n]]]
  BY <1>1 DEF IsSort
<1>6. DOMAIN t = 1..m /\ \A n \in 1..m : t[n] = u[n]
  BY DEF FirstOf
<1>7. \A n \in 1..m : t[n] = s[at[n]]
  BY <1>4, <1>5, <1>6
<1>8. Len(t) = m
  BY <1>6
<1> HIDE DEF L
<1>9. \A y \in Members(t) : \E n \in 1..m : y = s[at[n]]
  BY <1>6, <1>7 DEF Members
<1>10. \A n \in 1..m : s[at[n]] \in Members(t)
  BY <1>6, <1>7 DEF Members
<1>11. ASSUME NEW x \in S \ Members(t) PROVE m = k /\ \A y \in Members(t) : weight[y] <= weight[x]
  <2>1. PICK i \in D : s[i] = x
    BY <1>1
  <2>2. PICK n \in D : at[n] = i
    BY <1>5
  <2>3. n \notin 1..m
    BY <1>10, <2>1, <2>2
  <2>4. m < n /\ n <= N
    BY <2>3
  <2>5. ASSUME NEW y \in Members(t) PROVE weight[y] <= weight[x]
    <3>1. PICK j \in 1..m : y = s[at[j]]
      BY <1>9
    <3>2. j \in D /\ j < n
      BY <1>4, <2>4
    <3>3. <<at[n], at[j]>> \notin L /\ at[j] \in D /\ at[n] \in D
      BY <1>5, <3>2
    <3>4. ~ (weight[s[at[n]]] < weight[s[at[j]]])
      BY <1>2, <3>3
    <3> QED BY <1>3, <2>1, <2>2, <3>1, <3>3, <3>4
  <2> QED BY <1>4, <2>4, <2>5
<1>12. ASSUME NEW y \in Members(t) PROVE y \in S
  <2>1. PICK n \in 1..m : y = s[at[n]]
    BY <1>9
  <2>2. at[n] \in D
    BY <1>4, <1>5
  <2> QED BY <1>1, <2>1, <2>2
<1>13. Members(t) \in SUBSET S
  BY <1>12
<1> QED BY <1>4, <1>6, <1>8, <1>11, <1>13 DEF Lightest

LEMMA CutKeepsLightest ==
  ASSUME NEW S, NEW s, ListsAll(S, s), NEW weight, Weighs(Len(s), s, weight), NEW k \in Nat,
         NEW at, Ranked(Len(s), Lighter(s, weight), at)
  PROVE  Lightest(S, weight, k, Prefix([n \in DOMAIN s |-> s[at[n]]], k))
<1> DEFINE N == Len(s)
           u == [n \in DOMAIN s |-> s[at[n]]]
           m == Least(k, N)
           t == Prefix(u, k)
<1>1. N \in Nat /\ DOMAIN s = 1..N /\ ListsIn(N, S, s)
  <2>1. s \in Seq(S)
    BY DEF ListsAll
  <2> QED BY <2>1 DEF ListsAll, ListsIn
<1>2. m \in Nat /\ CutAt(m, N, k)
  <2>1. m = IF k < N THEN k ELSE N
    BY DEF Least
  <2> HIDE DEF m, N
  <2> QED BY <1>1, <2>1 DEF CutAt
<1>3. IsSort(s, Lighter(s, weight), at, u)
  <2>1. Weakly(1..N, Lighter(s, weight)) /\ u = [n \in 1..N |-> s[at[n]]]
    BY <1>1, WeightsOrder
  <2> HIDE DEF u, N
  <2>2. Ranked(N, Lighter(s, weight), at)
    BY DEF N
  <2> QED BY <1>1, <2>1, <2>2, Sorts
<1>4. Len(u) = N /\ DOMAIN u = 1..N
  BY <1>1
<1>5. t = SubSeq(u, 1, m)
  BY <1>4 DEF Prefix
<1> HIDE DEF u, t, m
<1>6. FirstOf(t, u, m)
  BY <1>2, <1>5 DEF FirstOf
<1>7. Weighs(N, s, weight)
  OBVIOUS
<1> HIDE DEF N
<1>8. Lightest(S, weight, k, t)
  BY <1>1, <1>2, <1>3, <1>6, <1>7, FirstsAreLightest
<1> QED BY <1>8 DEF t, u

-----------------------------------------------------------------------------
(* The digest. *)

\* A sort by severity, with the places it takes them from.
BySeverity(s) == Sorted(s, LAMBDA a, b : a.severity < b.severity)
Severe(N, s, weight) == DOMAIN s = 1..N /\ \A i \in 1..N : weight[s[i]] = s[i].severity /\ s[i].severity \in Int
SortedBy(s, at) == BySeverity(s) = [n \in DOMAIN s |-> s[at[n]]]
LEMMA SeveritySorts ==
  ASSUME NEW s, NEW N \in Nat, NEW weight, Severe(N, s, weight)
  PROVE  \E at : Ranked(N, Lighter(s, weight), at) /\ SortedBy(s, at)
<1> DEFINE D == 1..N
           before(i, j) == s[i].severity < s[j].severity \/ (~ (s[j].severity < s[i].severity) /\ i < j)
           at == [n \in 1..Cardinality(D) |-> CHOOSE x \in D : Cardinality({y \in D : before(y, x)}) = n - 1]
           to == [n \in D |-> CHOOSE i \in D : Cardinality({j \in D : <<j, i>> \in Stably(D, Lighter(s, weight))}) = n - 1]
<1>1. Cardinality(D) = N /\ DOMAIN s = D /\ \A i \in D : weight[s[i]] = s[i].severity /\ s[i].severity \in Int
  BY FS_Interval DEF Severe
<1>2. BySeverity(s) = [n \in DOMAIN s |-> s[at[n]]]
  <2> DEFINE ranks(E) == [n \in 1..Cardinality(E) |-> CHOOSE x \in E : Cardinality({y \in E : before(y, x)}) = n - 1]
  <2>1. BySeverity(s) = [n \in DOMAIN s |-> s[ranks(DOMAIN s)[n]]]
    BY Zenon DEF BySeverity, Sorted, InOrder
  <2>2. ranks(DOMAIN s) = at
    BY <1>1
  <2> HIDE DEF ranks, at
  <2> QED BY <2>1, <2>2
<1>3. \A i \in D : {j \in D : before(j, i)} = {j \in D : <<j, i>> \in Stably(D, Lighter(s, weight))}
  BY <1>1 DEF Stably, Lighter
<1>4. at = to
  <2> DEFINE first(n) == CHOOSE x \in D : Cardinality({y \in D : before(y, x)}) = n - 1
             last(n) == CHOOSE i \in D : Cardinality({j \in D : <<j, i>> \in Stably(D, Lighter(s, weight))}) = n - 1
  <2>1. \A n : first(n) = last(n)
    BY <1>3, Zenon
  <2>2. at = [n \in 1..Cardinality(D) |-> first(n)] /\ to = [n \in D |-> last(n)]
    OBVIOUS
  <2> HIDE DEF first, last, at, to
  <2> QED BY <1>1, <2>1, <2>2
<1>5. Ranked(N, Lighter(s, weight), to)
  BY DEF Ranked
<1>6. SortedBy(s, to)
  BY <1>2, <1>4 DEF SortedBy
<1> QED BY <1>5, <1>6

\* What the rules raise is finite, and has a severity.
ChangesOf(K, changes) == DOMAIN changes = 1..K
LEMMA RaisedFinite ==
  ASSUME IsFiniteSet(Engines), NEW ps, NEW previous, NEW K \in Nat, NEW changes, ChangesOf(K, changes),
         NEW open, IsFiniteSet(open), NEW starred, NEW rules
  PROVE  /\ IsFiniteSet(Raised(ps, previous, changes, open, starred, rules))
         /\ \A v \in Raised(ps, previous, changes, open, starred, rules) : v.severity \in {0, 1}
<1> DEFINE drop == [e \in Engines |-> Event("citation_drop", IF CitedOf(ps, e) = 0 THEN 0 ELSE 1, e)]
           lost == [i \in 1..K |-> Event("lost_prompt", 1, changes[i].prompt)]
           new == Newcomers(changes)
           surge == [i \in DOMAIN new |-> Event("competitor_surge", 1, new[i].after)]
           claim == [t \in open |-> Event("negative_claim", 0, t)]
           silent == [e \in Engines |-> Event("engine_silent", 0, e)]
<1>1. Drops(ps, previous) \in SUBSET {drop[e] : e \in Engines} /\ IsFiniteSet({drop[e] : e \in Engines})
  <2>1. IsFiniteSet({drop[e] : e \in Engines})
    <3> HIDE DEF drop
    <3> QED BY ValuesFinite DEF AllKeys
  <2>2. Drops(ps, previous) \in SUBSET {drop[e] : e \in Engines}
    BY DEF Drops
  <2> QED BY <2>1, <2>2
<1>2. Lost(changes, starred) \in SUBSET {lost[i] : i \in 1..K} /\ IsFiniteSet({lost[i] : i \in 1..K})
  <2>1. IsFiniteSet({lost[i] : i \in 1..K})
    <3> HIDE DEF lost
    <3>1. IsFiniteSet(1..K)
      BY FS_Interval
    <3> QED BY <3>1, ValuesFinite DEF AllKeys
  <2>2. DOMAIN changes = 1..K
    BY DEF ChangesOf
  <2>3. ASSUME NEW v \in Lost(changes, starred) PROVE v \in {lost[i] : i \in 1..K}
    <3>1. PICK c \in Members(changes) : v = Event("lost_prompt", 1, c.prompt)
      BY DEF Lost
    <3>2. PICK i \in 1..K : c = changes[i]
      BY <2>2 DEF Members
    <3> QED BY <3>1, <3>2
  <2>4. Lost(changes, starred) \in SUBSET {lost[i] : i \in 1..K}
    BY <2>3
  <2> QED BY <2>1, <2>4
<1>3. Surges(changes) \in SUBSET {surge[i] : i \in DOMAIN new} /\ IsFiniteSet({surge[i] : i \in DOMAIN new})
  <2> DEFINE I == {i \in 1..K : changes[i].kind = "new_competitor"}
  <2>1. new = Entries(changes, I)
    BY DEF Newcomers, Those, ChangesOf
  <2>2. IsFiniteSet(I) /\ I \in SUBSET Int
    BY PlacesOf
  <2> HIDE DEF I, new
  <2>3. DOMAIN new = 1..Cardinality(I) /\ Cardinality(I) \in Nat
    BY <2>1, <2>2, EntriesOf, FS_CardinalityType
  <2>4. IsFiniteSet(DOMAIN new)
    BY <2>3, FS_Interval
  <2>5. IsFiniteSet({surge[i] : i \in DOMAIN new})
    <3> HIDE DEF surge
    <3> QED BY <2>4, ValuesFinite DEF AllKeys
  <2>6. ASSUME NEW v \in Surges(changes) PROVE v \in {surge[i] : i \in DOMAIN new}
    <3>1. PICK c \in Members(new) : v = Event("competitor_surge", 1, c.after)
      BY DEF Surges, new
    <3>2. PICK i \in DOMAIN new : c = new[i]
      BY DEF Members
    <3> QED BY <3>1, <3>2
  <2>7. Surges(changes) \in SUBSET {surge[i] : i \in DOMAIN new}
    BY <2>6
  <2> QED BY <2>5, <2>7
<1>4. Claimed(open) = {claim[t] : t \in open} /\ IsFiniteSet({claim[t] : t \in open})
  <2>1. IsFiniteSet({claim[t] : t \in open})
    <3> HIDE DEF claim
    <3> QED BY ValuesFinite DEF AllKeys
  <2> QED BY <2>1 DEF Claimed
<1>5. Silent(ps, previous) \in SUBSET {silent[e] : e \in Engines} /\ IsFiniteSet({silent[e] : e \in Engines})
  <2>1. IsFiniteSet({silent[e] : e \in Engines})
    <3> HIDE DEF silent
    <3> QED BY ValuesFinite DEF AllKeys
  <2>2. Silent(ps, previous) \in SUBSET {silent[e] : e \in Engines}
    BY DEF Silent
  <2> QED BY <2>1, <2>2
<1> DEFINE A == {drop[e] : e \in Engines}
           B == {lost[i] : i \in 1..K}
           C == {surge[i] : i \in DOMAIN new}
           D == {claim[t] : t \in open}
           E == {silent[e] : e \in Engines}
           all == Raised(ps, previous, changes, open, starred, rules)
<1>6. all \in SUBSET (A \cup B \cup C \cup D \cup E)
  BY <1>1, <1>2, <1>3, <1>4, <1>5 DEF Raised
<1>7. \A v \in A \cup B \cup C \cup D \cup E : v.severity \in {0, 1}
  BY DEF Event
<1> HIDE DEF A, B, C, D, E, all
<1>8. IsFiniteSet(A \cup B \cup C \cup D \cup E)
  <2>1. IsFiniteSet(A) /\ IsFiniteSet(B) /\ IsFiniteSet(C) /\ IsFiniteSet(D) /\ IsFiniteSet(E)
    BY <1>1, <1>2, <1>3, <1>4, <1>5 DEF A, B, C, D, E
  <2> QED BY <2>1, FS_Union
<1>9. IsFiniteSet(all)
  BY <1>6, <1>8, FS_Subset
<1> QED BY <1>6, <1>7, <1>9 DEF all

LEMMA DigestKeepsWorst ==
  ASSUME MaxEvents \in Nat, NEW all, IsFiniteSet(all), \A v \in all : v.severity \in {0, 1}
  PROVE  LET digest == Prefix(BySeverity(Listed(all)), MaxEvents) IN
         \A v \in all \ Members(digest) : Len(digest) = MaxEvents /\ \A k \in Members(digest) : k.severity <= v.severity
<1> DEFINE s == Listed(all)
           weight == [v \in all |-> v.severity]
           digest == Prefix(BySeverity(s), MaxEvents)
<1>1. ListsAll(all, s)
  BY ListedOf
<1> HIDE DEF s
<1>2. Len(s) \in Nat /\ DOMAIN s = 1..Len(s) /\ \A i \in 1..Len(s) : s[i] \in all
  <2>1. s \in Seq(all)
    BY <1>1 DEF ListsAll
  <2> QED BY <2>1
<1>3. Severe(Len(s), s, weight)
  <2>1. \A i \in 1..Len(s) : weight[s[i]] = s[i].severity /\ s[i].severity \in Int
    BY <1>2
  <2> QED BY <1>2, <2>1 DEF Severe
<1>4. \A v \in all : weight[v] = v.severity
  OBVIOUS
<1> HIDE DEF weight
<1> DEFINE N == Len(s)
<1>5. PICK at : Ranked(N, Lighter(s, weight), at) /\ SortedBy(s, at)
  <2>1. N \in Nat /\ Severe(N, s, weight)
    BY <1>2, <1>3
  <2> HIDE DEF N
  <2> QED BY <2>1, SeveritySorts
<1>6. Weighs(Len(s), s, weight)
  BY <1>3 DEF Weighs, Severe
<1>7. Lightest(all, weight, MaxEvents, Prefix([n \in DOMAIN s |-> s[at[n]]], MaxEvents))
  BY <1>1, <1>5, <1>6, CutKeepsLightest
<1>8. Lightest(all, weight, MaxEvents, digest)
  <2>1. BySeverity(s) = [n \in DOMAIN s |-> s[at[n]]]
    BY <1>5 DEF SortedBy
  <2> QED BY <1>7, <2>1
<1> HIDE DEF digest
<1>9. \A v \in all \ Members(digest) : Len(digest) = MaxEvents /\ \A k \in Members(digest) : k.severity <= v.severity
  <2>1. Members(digest) \in SUBSET all
    BY <1>8 DEF Lightest
  <2> QED BY <1>4, <1>8, <2>1 DEF Lightest
<1> QED BY <1>9 DEF digest, s

\* triggers.py: for windows of any number of pairs, a fall is none the other way round,
\* is one at twice the answers, is below the band of before, and is no silence; and the
\* digest of any number of events leaves out none that is worse than one it keeps.
THEOREM AlertsAlwaysSound ==
  ASSUME Figures, MinTrials \in Nat, MinTrials > 0, MaxEvents \in Nat, IsFiniteSet(Engines),
         NEW N \in Nat, NEW ps, PositionsOf(N, ps), NEW M \in Nat, NEW previous, PositionsOf(M, previous),
         NEW K \in Nat, NEW changes, ChangesOf(K, changes), NEW open, IsFiniteSet(open), NEW starred, NEW rules
  PROVE  AlertsSound(ps, previous, changes, open, starred, rules)
<1> DEFINE all == Raised(ps, previous, changes, open, starred, rules)
           digest == Evaluate(ps, previous, changes, open, starred, rules)
<1>1. IsFiniteSet(all) /\ \A v \in all : v.severity \in {0, 1}
  BY RaisedFinite
<1>2. digest = Prefix(BySeverity(Listed(all)), MaxEvents)
  BY Zenon DEF Evaluate, BySeverity
<1> HIDE DEF all, digest
<1>3. \A v \in all \ Members(digest) : Len(digest) = MaxEvents /\ \A k \in Members(digest) : k.severity <= v.severity
  BY <1>1, <1>2, DigestKeepsWorst
<1>4. \A e \in Engines : Fell(ps, previous, e) =>
       /\ ~ Fell(previous, ps, e) /\ \A v \in Silent(ps, previous) : v.subject # e
       /\ Rate(CitedOf(ps, e), Trials(ps, e)) < Low(CitedOf(previous, e), Trials(previous, e))
       /\ Apart(2 * CitedOf(ps, e), 2 * Trials(ps, e), 2 * CitedOf(previous, e), 2 * Trials(previous, e))
  BY FallsAreReal
<1> QED BY <1>3, <1>4, Zenon DEF AlertsSound, all, digest

-----------------------------------------------------------------------------
(* A window's position: sums, and a rate between the rates of its parts. *)

Scaled(S, f, k, g) == \A x \in S : g[x] = k * f[x]
LEMMA SumTimes ==
  ASSUME NEW S, IsFiniteSet(S), NEW f \in [S -> Int], NEW k \in Int, NEW g \in [S -> Int], Scaled(S, f, k, g)
  PROVE  SumFunctionOnSet(g, S) = k * SumFunctionOnSet(f, S)
<1> DEFINE F(r) == SumFunctionOnSet(f, r)
           G(r) == SumFunctionOnSet(g, r)
           P == {r \in SUBSET S : G(r) = k * F(r)}
<1>1. AddsUp(S, f) /\ AddsUp(S, g)
  BY SumsAddUp
<1>2. F({}) = 0 /\ G({}) = 0
  BY SumEmpty
<1>3. ASSUME NEW r \in P, NEW x \in S \ r PROVE r \cup {x} \in P
  <2>1. F(r) \in Int /\ F(r \cup {x}) = F(r) + f[x] /\ G(r \cup {x}) = G(r) + g[x]
    BY <1>1 DEF AddsUp
  <2> DEFINE a == F(r)
             b == f[x]
  <2>2. a \in Int /\ b \in Int /\ G(r) = k * a /\ g[x] = k * b /\ F(r \cup {x}) = a + b
    BY <2>1 DEF Scaled
  <2>3. r \cup {x} \in SUBSET S /\ G(r \cup {x}) = k * a + k * b
    BY <2>1, <2>2
  <2> HIDE DEF a, b, F, G
  <2>4. k * (a + b) = k * a + k * b
    BY <2>2
  <2> QED BY <2>2, <2>3, <2>4
<1>4. {} \in P
  BY <1>2
<1> HIDE DEF P
<1>5. S \in P
  BY <1>3, <1>4, SubsetInduction DEF P
<1> QED BY <1>5 DEF P

\* A sum that is nowhere above another is as far below it as any of its terms.
Under(S, f, g) == \A x \in S : f[x] <= g[x]
LEMMA SumCompares ==
  ASSUME NEW S, IsFiniteSet(S), NEW f \in [S -> Int], NEW g \in [S -> Int], Under(S, f, g)
  PROVE  \A x \in S : g[x] - f[x] <= SumFunctionOnSet(g, S) - SumFunctionOnSet(f, S)
<1> DEFINE h == [x \in S |-> g[x] - f[x]]
           H(r) == SumFunctionOnSet(h, r)
           P == {r \in SUBSET S : H(r) \in Nat /\ \A x \in r : h[x] <= H(r)}
<1>1. h \in [S -> Int] /\ \A x \in S : h[x] \in Nat /\ g[x] = f[x] + h[x] /\ h[x] = g[x] - f[x]
  BY DEF Under
<1> HIDE DEF h
<1>2. SumFunctionOnSet(g, S) = SumFunctionOnSet(f, S) + H(S)
  BY <1>1, SumPlus
<1>3. AddsUp(S, h) /\ H({}) = 0
  BY <1>1, SumsAddUp, SumEmpty
<1>4. ASSUME NEW r \in P, NEW x \in S \ r PROVE r \cup {x} \in P
  <2>1. H(r) \in Nat /\ H(r \cup {x}) = H(r) + h[x] /\ \A y \in r : h[y] <= H(r)
    BY <1>3 DEF AddsUp
  <2> HIDE DEF H
  <2>2. r \cup {x} \in SUBSET S /\ H(r \cup {x}) \in Nat
    BY <1>1, <2>1
  <2>3. \A y \in r \cup {x} : h[y] <= H(r \cup {x})
    BY <1>1, <2>1
  <2> QED BY <2>2, <2>3
<1>5. {} \in P
  BY <1>3
<1> HIDE DEF P
<1>6. S \in P
  BY <1>4, <1>5, SubsetInduction DEF P
<1>7. SumFunctionOnSet(f, S) \in Int /\ H(S) \in Nat /\ \A x \in S : h[x] <= H(S)
  BY <1>6, SumTyped DEF P
<1> HIDE DEF H
<1> QED BY <1>1, <1>2, <1>7

\* Of parts with n answers each, c of them of a kind, one has at least the rate of the whole.
PartsOf(S, c, n) == IsFiniteSet(S) /\ S # {} /\ c \in [S -> Nat] /\ n \in [S -> Nat] /\ \A x \in S : c[x] <= n[x]
LEMMA Mediant ==
  ASSUME NEW S, NEW c, NEW n, PartsOf(S, c, n), NEW C, C = SumFunctionOnSet(c, S), NEW N, N = SumFunctionOnSet(n, S)
  PROVE  /\ C \in Nat /\ N \in Nat /\ C <= N /\ \A x \in S : n[x] <= N
         /\ \E x \in S : C * n[x] <= c[x] * N /\ (n[x] = 0 => N = 0)
         /\ \E x \in S : c[x] * N <= C * n[x] /\ (n[x] = 0 => N = 0)
<1>1. IsFiniteSet(S) /\ S # {} /\ c \in [S -> Int] /\ n \in [S -> Int] /\ \A x \in S : c[x] \in Nat /\ n[x] \in Nat /\ c[x] <= n[x]
  BY DEF PartsOf
<1>2. C \in Nat /\ N \in Nat
  BY <1>1, SumNat
<1>3. C <= N /\ \A x \in S : n[x] - c[x] <= N - C
  <2>1. \A x \in S : n[x] - c[x] <= N - C
    <3>1. Under(S, c, n)
      BY <1>1 DEF Under
    <3> QED BY <1>1, <3>1, SumCompares
  <2>2. PICK x \in S : n[x] - c[x] <= N - C
    BY <1>1, <2>1
  <2> QED BY <1>1, <1>2, <2>1, <2>2
<1> DEFINE f == [x \in S |-> N * c[x]]
           g == [x \in S |-> C * n[x]]
<1>4. f \in [S -> Int] /\ g \in [S -> Int] /\ \A x \in S : f[x] = N * c[x] /\ g[x] = C * n[x]
  BY <1>1, <1>2
<1> HIDE DEF f, g
<1>5. SumFunctionOnSet(f, S) = N * C /\ SumFunctionOnSet(g, S) = C * N
  <2>1. SumFunctionOnSet(f, S) = N * SumFunctionOnSet(c, S)
    <3>1. Scaled(S, c, N, f)
      BY <1>4 DEF Scaled
    <3> QED BY <1>1, <1>2, <1>4, <3>1, SumTimes
  <2>2. SumFunctionOnSet(g, S) = C * SumFunctionOnSet(n, S)
    <3>1. Scaled(S, n, C, g)
      BY <1>4 DEF Scaled
    <3> QED BY <1>1, <1>2, <1>4, <3>1, SumTimes
  <2> QED BY <2>1, <2>2
<1>6. N * C \in Int /\ N * C = C * N
  BY <1>2
<1>7. ASSUME NEW u \in [S -> Int], NEW v \in [S -> Int], Under(S, u, v), SumFunctionOnSet(u, S) = N * C, SumFunctionOnSet(v, S) = N * C
      PROVE  \A x \in S : u[x] = v[x]
  <2>1. \A x \in S : v[x] - u[x] <= SumFunctionOnSet(v, S) - SumFunctionOnSet(u, S)
    BY <1>1, <1>7, SumCompares
  <2>2. \A x \in S : v[x] - u[x] <= 0
    BY <1>6, <1>7, <2>1
  <2> QED BY <1>7, <2>2 DEF Under
<1>8. N > 0 => \E x \in S : n[x] > 0
  <2> SUFFICES ASSUME \A x \in S : n[x] = 0 PROVE N = 0
    BY <1>1, <1>2
  <2>1. \A x \in S : n[x] \in 0..0
    OBVIOUS
  <2>2. SumFunctionOnSet(n, S) \in 0..(Cardinality(S) * 0) /\ Cardinality(S) \in Nat
    BY <1>1, <2>1, SumBounded, FS_CardinalityType
  <2> QED BY <1>2, <2>2
<1>9. \A x \in S : n[x] = 0 => f[x] = 0 /\ g[x] = 0
  <2> SUFFICES ASSUME NEW x \in S, n[x] = 0 PROVE f[x] = 0 /\ g[x] = 0
    OBVIOUS
  <2>1. c[x] = 0
    BY <1>1
  <2> QED BY <1>2, <1>4, <2>1
<1>10. N = 0 => \A x \in S : f[x] = 0 /\ g[x] = 0
  <2> SUFFICES ASSUME N = 0, NEW x \in S PROVE f[x] = 0 /\ g[x] = 0
    OBVIOUS
  <2>1. C = 0
    BY <1>2, <1>3
  <2> QED BY <1>1, <1>4, <2>1
<1>11. \E x \in S : g[x] <= f[x] /\ (n[x] = 0 => N = 0)
  <2> SUFFICES ASSUME \A x \in S : ~ (g[x] <= f[x] /\ (n[x] = 0 => N = 0)) PROVE FALSE
    OBVIOUS
  <2>1. N > 0
    BY <1>1, <1>2, <1>10
  <2>2. \A x \in S : n[x] > 0 => f[x] < g[x]
    BY <1>1, <1>4
  <2>3. Under(S, f, g)
    BY <1>1, <1>4, <1>9, <2>2 DEF Under
  <2>4. \A x \in S : f[x] = g[x]
    BY <1>4, <1>5, <1>6, <1>7, <2>3
  <2> QED BY <1>8, <2>1, <2>2, <2>4, <1>4
<1>12. \E x \in S : f[x] <= g[x] /\ (n[x] = 0 => N = 0)
  <2> SUFFICES ASSUME \A x \in S : ~ (f[x] <= g[x] /\ (n[x] = 0 => N = 0)) PROVE FALSE
    OBVIOUS
  <2>1. N > 0
    BY <1>1, <1>2, <1>10
  <2>2. \A x \in S : n[x] > 0 => g[x] < f[x]
    BY <1>1, <1>4
  <2>3. Under(S, g, f)
    BY <1>1, <1>4, <1>9, <2>2 DEF Under
  <2>4. \A x \in S : g[x] = f[x]
    BY <1>4, <1>5, <1>6, <1>7, <2>3
  <2> QED BY <1>8, <2>1, <2>2, <2>4, <1>4
<1>13. \A x \in S : c[x] * N = f[x]
  BY <1>1, <1>2, <1>4
<1>14. \E x \in S : C * n[x] <= c[x] * N /\ (n[x] = 0 => N = 0)
  BY <1>4, <1>11, <1>13
<1>15. \E x \in S : c[x] * N <= C * n[x] /\ (n[x] = 0 => N = 0)
  BY <1>4, <1>12, <1>13
<1>16. \A x \in S : n[x] <= N
  <2> DEFINE z == [x \in S |-> 0]
  <2>1. z \in [S -> Int] /\ \A x \in S : z[x] = 0 /\ z[x] \in 0..0
    OBVIOUS
  <2> HIDE DEF z
  <2>2. SumFunctionOnSet(z, S) \in 0..(Cardinality(S) * 0) /\ Cardinality(S) \in Nat
    BY <1>1, <2>1, SumBounded, FS_CardinalityType
  <2>3. Under(S, z, n)
    BY <1>1, <2>1 DEF Under
  <2>4. \A x \in S : n[x] - z[x] <= N - SumFunctionOnSet(z, S)
    BY <1>1, <2>1, <2>3, SumCompares
  <2>5. SumFunctionOnSet(z, S) = 0
    BY <2>2
  <2> QED BY <1>1, <1>2, <2>1, <2>4, <2>5
<1> QED BY <1>2, <1>3, <1>14, <1>15, <1>16

\* Rounding keeps the order of rates.
LEMMA RateOrders ==
  ASSUME Figures, NEW c \in Nat, NEW n \in Nat, n > 0, NEW d \in Nat, NEW m \in Nat, m > 0, c * m <= d * n
  PROVE  Rate(c, n) <= Rate(d, m)
<1> DEFINE p == Rate(c, n)
           q == Rate(d, m)
           cs == c * Scale
           ds == d * Scale
           pn == p * n
           qm == q * m
           nm == n * m
<1>1. p \in Nat /\ 2 * pn <= 2 * cs + n
  BY RateIs
<1>2. q \in Nat /\ 2 * ds + m < 2 * qm + 2 * m
  BY RateIs
<1>3. cs \in Nat /\ ds \in Nat /\ Scale \in Nat
  BY DEF Figures
<1> HIDE DEF p, q
<1>4. pn \in Nat /\ qm \in Nat /\ nm \in Nat /\ nm > 0
  BY <1>1, <1>2
<1>5. cs * m <= ds * n
  <2>1. (c * m) * Scale <= (d * n) * Scale
    BY <1>3, TimesUp
  <2>2. (c * m) * Scale = cs * m /\ (d * n) * Scale = ds * n
    BY <1>3
  <2> QED BY <2>1, <2>2
<1> DEFINE a == cs * m
           b == ds * n
           u == pn * m
           v == qm * n
<1>6. a \in Nat /\ b \in Nat /\ u \in Nat /\ v \in Nat
  BY <1>3, <1>4
<1>7. 2 * u <= 2 * a + nm
  <2>1. (2 * pn) * m <= (2 * cs + n) * m
    BY <1>1, <1>3, <1>4, TimesUp
  <2>2. (2 * pn) * m = 2 * u
    BY <1>4
  <2>3. (2 * cs + n) * m = 2 * a + nm
    BY <1>3
  <2> HIDE DEF pn, cs, u, a, nm
  <2> QED BY <2>1, <2>2, <2>3
<1>8. 2 * b + nm + n <= 2 * v + 2 * nm
  <2>1. 2 * ds + m + 1 <= 2 * qm + 2 * m
    BY <1>2, <1>3, <1>4
  <2>2. (2 * ds + m + 1) * n <= (2 * qm + 2 * m) * n
    BY <1>3, <1>4, <2>1, TimesUp
  <2>3. (2 * ds + m + 1) * n = 2 * b + nm + n
    BY <1>3
  <2>4. (2 * qm + 2 * m) * n = 2 * v + 2 * nm
    BY <1>4
  <2> HIDE DEF qm, ds, v, b, nm
  <2> QED BY <2>2, <2>3, <2>4
<1>9. u = p * nm /\ v = q * nm
  BY <1>1, <1>2
<1>10. a <= b
  BY <1>5
<1> HIDE DEF a, b, u, v, nm, pn, qm, cs, ds
<1>11. u < v + nm
  BY <1>4, <1>6, <1>7, <1>8, <1>10
<1>12. (q + 1) * nm = v + nm
  BY <1>2, <1>4, <1>9
<1> SUFFICES ASSUME q < p PROVE FALSE
  BY <1>1, <1>2 DEF p, q
<1>13. (q + 1) * nm <= p * nm
  BY <1>1, <1>2, <1>4, TimesUp
<1> QED BY <1>4, <1>6, <1>9, <1>11, <1>12, <1>13

\* What a snapshot says of one crawl: no more answers failed, or cite the client, than there are.
SnapshotsOf(N, snaps) ==
  /\ DOMAIN snaps = 1..N
  /\ \A i \in 1..N :
       /\ snaps[i].samples \in Nat /\ snaps[i].failed \in Nat /\ snaps[i].cited \in Nat /\ snaps[i].mention \in Nat
       /\ snaps[i].failed + snaps[i].cited <= snaps[i].samples
Answered(N, snaps) == [i \in 1..N |-> snaps[i].samples - snaps[i].failed]
CitedIn(N, snaps) == [i \in 1..N |-> snaps[i].cited]
SampledIn(N, snaps) == [i \in 1..N |-> snaps[i].samples]
FailedIn(N, snaps) == [i \in 1..N |-> snaps[i].failed]
NamedBy(s) == Rate(s.mention * OkOf(s), Scale * Scale)
NamedIn(N, snaps) == [i \in 1..N |-> NamedBy(snaps[i])]
Pools(N, snaps, w) ==
  /\ w.samples = SumFunctionOnSet(SampledIn(N, snaps), 1..N)
  /\ w.failed = SumFunctionOnSet(FailedIn(N, snaps), 1..N)
  /\ w.cited = SumFunctionOnSet(CitedIn(N, snaps), 1..N)
  /\ w.mention = SumFunctionOnSet(NamedIn(N, snaps), 1..N)
  /\ w.ok = SumFunctionOnSet(Answered(N, snaps), 1..N)
  /\ w.rate = Rate(w.cited, w.ok) /\ w.won = Half(w.cited, w.ok)

LEMMA SnapshotFigures ==
  ASSUME Figures, NEW N \in Nat, NEW snaps, SnapshotsOf(N, snaps)
  PROVE  /\ IsFiniteSet(1..N)
         /\ SampledIn(N, snaps) \in [1..N -> Nat] /\ FailedIn(N, snaps) \in [1..N -> Nat]
         /\ CitedIn(N, snaps) \in [1..N -> Nat] /\ NamedIn(N, snaps) \in [1..N -> Nat]
         /\ Answered(N, snaps) \in [1..N -> Nat]
         /\ \A i \in 1..N : CitedIn(N, snaps)[i] <= Answered(N, snaps)[i]
<1>1. ASSUME NEW i \in 1..N PROVE NamedBy(snaps[i]) \in Nat
  <2> DEFINE c == snaps[i].mention * OkOf(snaps[i])
             n == Scale * Scale
  <2>1. OkOf(snaps[i]) \in Nat /\ snaps[i].mention \in Nat
    BY DEF OkOf, SnapshotsOf
  <2>2. c \in Nat
    BY <2>1
  <2>3. n \in Nat /\ n > 0
    BY DEF Figures
  <2> HIDE DEF c, n
  <2>4. Rate(c, n) \in Nat
    BY <2>2, <2>3, RateIs
  <2> QED BY <2>4 DEF c, n, NamedBy
<1>2. \A i \in 1..N : /\ snaps[i].samples \in Nat /\ snaps[i].failed \in Nat /\ snaps[i].cited \in Nat
                      /\ snaps[i].samples - snaps[i].failed \in Nat /\ snaps[i].cited <= snaps[i].samples - snaps[i].failed
  BY DEF SnapshotsOf
<1>3. NamedIn(N, snaps) \in [1..N -> Nat]
  BY <1>1 DEF NamedIn
<1>4. SampledIn(N, snaps) \in [1..N -> Nat] /\ FailedIn(N, snaps) \in [1..N -> Nat]
  BY <1>2 DEF SampledIn, FailedIn
<1>5. CitedIn(N, snaps) \in [1..N -> Nat] /\ Answered(N, snaps) \in [1..N -> Nat]
  BY <1>2 DEF CitedIn, Answered
<1>6. \A i \in 1..N : CitedIn(N, snaps)[i] <= Answered(N, snaps)[i]
  BY <1>2 DEF CitedIn, Answered
<1>7. IsFiniteSet(1..N)
  BY FS_Interval
<1> QED BY <1>3, <1>4, <1>5, <1>6, <1>7

LEMMA WindowIsPool ==
  ASSUME Figures, NEW N \in Nat, NEW snaps, SnapshotsOf(N, snaps), NEW answers, NEW organic
  PROVE  Pools(N, snaps, Aggregate(snaps, answers, organic))
<1> DEFINE w == Aggregate(snaps, answers, organic)
           a == SampledIn(N, snaps)
           b == FailedIn(N, snaps)
           c == CitedIn(N, snaps)
           m == NamedIn(N, snaps)
           k == Answered(N, snaps)
           O(f) == SumFunctionOnSet(f, 1..N)
<1>1. DOMAIN snaps = 1..N
  BY DEF SnapshotsOf
<1>2. /\ Over(snaps, LAMBDA s : s.samples) = O(a) /\ Over(snaps, LAMBDA s : s.failed) = O(b)
      /\ Over(snaps, LAMBDA s : s.cited) = O(c)
  BY <1>1 DEF Over, Total, SumFunction, SampledIn, FailedIn, CitedIn
<1>3. Over(snaps, LAMBDA s : Rate(s.mention * OkOf(s), Scale * Scale)) = O(m)
  BY <1>1 DEF Over, Total, SumFunction, NamedIn, NamedBy
<1>4. IsFiniteSet(1..N) /\ a \in [1..N -> Nat] /\ b \in [1..N -> Nat] /\ c \in [1..N -> Nat] /\ k \in [1..N -> Nat]
  BY SnapshotFigures
<1>5. \A i \in 1..N : a[i] = b[i] + k[i]
  BY DEF SampledIn, FailedIn, Answered, SnapshotsOf
<1> DEFINE p == Over(snaps, LAMBDA s : s.samples)
           q == Over(snaps, LAMBDA s : s.failed)
           r == Over(snaps, LAMBDA s : s.cited)
           t == Over(snaps, LAMBDA s : Rate(s.mention * OkOf(s), Scale * Scale))
           ok == IF p > q THEN p - q ELSE 0
<1>6. /\ w.samples = p /\ w.failed = q /\ w.cited = r /\ w.mention = t /\ w.ok = ok
      /\ w.rate = Rate(r, ok) /\ w.won = Half(r, ok)
  BY DEF Aggregate
<1>7. p = O(a) /\ q = O(b) /\ r = O(c) /\ t = O(m)
  BY <1>2, <1>3
<1> HIDE DEF w, a, b, c, m, k, p, q, r, t
<1>8. O(a) = O(b) + O(k)
  <2> DEFINE D == 1..N
  <2>1. a \in [D -> Int] /\ b \in [D -> Int] /\ k \in [D -> Int] /\ IsFiniteSet(D) /\ \A i \in D : a[i] = b[i] + k[i]
    BY <1>4, <1>5
  <2> HIDE DEF D
  <2>2. SumFunctionOnSet(a, D) = SumFunctionOnSet(b, D) + SumFunctionOnSet(k, D)
    BY <2>1, SumPlus
  <2> QED BY <2>2 DEF D
<1>9. O(b) \in Nat /\ O(k) \in Nat
  <2>1. b \in [1..N -> Int] /\ k \in [1..N -> Int] /\ \A i \in 1..N : b[i] \in Nat /\ k[i] \in Nat
    BY <1>4
  <2> QED BY <1>4, <2>1, SumNat
<1>10. ok = O(k)
  BY <1>7, <1>8, <1>9
<1> QED BY <1>6, <1>7, <1>10 DEF Pools, w, a, b, c, m, k

\* The position of one crawl is that crawl's.
LEMMA OneIsItself ==
  ASSUME Figures, NEW N \in Nat, NEW snaps, SnapshotsOf(N, snaps), NEW i \in 1..N
  PROVE  LET o == Aggregate(<<snaps[i]>>, <<>>, <<>>) IN
         /\ o.samples = SampledIn(N, snaps)[i] /\ o.failed = FailedIn(N, snaps)[i] /\ o.cited = CitedIn(N, snaps)[i]
         /\ o.mention = NamedIn(N, snaps)[i] /\ o.ok = Answered(N, snaps)[i]
         /\ o.rate = Rate(o.cited, o.ok) /\ o.won = Half(o.cited, o.ok)
<1> DEFINE one == <<snaps[i]>>
           o == Aggregate(one, <<>>, <<>>)
<1>1. DOMAIN one = 1..1 /\ one[1] = snaps[i]
  OBVIOUS
<1> HIDE DEF one
<1>2. SnapshotsOf(1, one)
  BY <1>1 DEF SnapshotsOf
<1>3. Pools(1, one, o)
  BY <1>2, WindowIsPool
<1>4. ASSUME NEW f \in [1..1 -> Nat] PROVE SumFunctionOnSet(f, 1..1) = f[1]
  <2>1. AddsUp(1..1, f) /\ SumFunctionOnSet(f, {}) = 0
    <3>1. f \in [1..1 -> Int]
      OBVIOUS
    <3>2. 1..1 = {1} /\ IsFiniteSet({1})
      BY FS_Singleton
    <3> QED BY <3>1, <3>2, SumsAddUp, SumEmpty
  <2>2. SumFunctionOnSet(f, {} \cup {1}) = SumFunctionOnSet(f, {}) + f[1]
    BY <2>1 DEF AddsUp
  <2>3. {} \cup {1} = 1..1 /\ f[1] \in Nat
    OBVIOUS
  <2> QED BY <2>1, <2>2, <2>3
<1>5. /\ SampledIn(1, one) \in [1..1 -> Nat] /\ FailedIn(1, one) \in [1..1 -> Nat]
      /\ CitedIn(1, one) \in [1..1 -> Nat] /\ NamedIn(1, one) \in [1..1 -> Nat] /\ Answered(1, one) \in [1..1 -> Nat]
  BY <1>2, SnapshotFigures
<1>6. /\ SampledIn(1, one)[1] = SampledIn(N, snaps)[i] /\ FailedIn(1, one)[1] = FailedIn(N, snaps)[i]
      /\ CitedIn(1, one)[1] = CitedIn(N, snaps)[i] /\ NamedIn(1, one)[1] = NamedIn(N, snaps)[i]
      /\ Answered(1, one)[1] = Answered(N, snaps)[i]
  BY <1>1 DEF SampledIn, FailedIn, CitedIn, NamedIn, Answered
<1> HIDE DEF o
<1>7. /\ o.samples = SampledIn(N, snaps)[i] /\ o.failed = FailedIn(N, snaps)[i] /\ o.cited = CitedIn(N, snaps)[i]
      /\ o.mention = NamedIn(N, snaps)[i] /\ o.ok = Answered(N, snaps)[i]
      /\ o.rate = Rate(o.cited, o.ok) /\ o.won = Half(o.cited, o.ok)
  BY <1>3, <1>4, <1>5, <1>6 DEF Pools
<1> QED BY <1>7 DEF o, one

\* How often each value occurs: the counts add up to the length.
CountsOf(M, key, counts) ==
  counts = [r \in {key[i] : i \in 1..M} |-> Cardinality({i \in 1..M : key[i] = r})]
LEMMA CountsAddUp ==
  ASSUME NEW M \in Nat, NEW key, NEW counts, CountsOf(M, key, counts)
  PROVE  SumFunctionOnSet(counts, DOMAIN counts) = M
<1> DEFINE T == 1..M
           f == [i \in T |-> 1]
           G == {key[i] : i \in T}
           h == [r \in G |-> SumFunctionOnSet(f, {i \in T : key[i] = r})]
<1>1. IsFiniteSet(T) /\ Cardinality(T) = M
  BY FS_Interval
<1>2. f \in [T -> Int] /\ \A i \in T : f[i] = 1
  OBVIOUS
<1> HIDE DEF f
<1>3. \A r \in SUBSET T : SumFunctionOnSet(f, r) = Cardinality(r)
  <2> DEFINE F(r) == SumFunctionOnSet(f, r)
             P == {r \in SUBSET T : F(r) = Cardinality(r)}
  <2> HIDE DEF T
  <2>1. AddsUp(T, f) /\ F({}) = 0 /\ Cardinality({}) = 0
    BY <1>1, <1>2, SumsAddUp, SumEmpty, FS_EmptySet
  <2> SUFFICES ASSUME NEW u \in SUBSET T PROVE F(u) = Cardinality(u)
    OBVIOUS
  <2> DEFINE Q == {r \in SUBSET u : F(r) = Cardinality(r)}
  <2>2. IsFiniteSet(u)
    BY <1>1, FS_Subset
  <2>3. ASSUME NEW r \in Q, NEW x \in u \ r PROVE r \cup {x} \in Q
    <3>1. F(r \cup {x}) = F(r) + 1
      BY <1>2, <2>1 DEF AddsUp
    <3>2. IsFiniteSet(r)
      BY <2>2, FS_Subset
    <3>3. Cardinality(r \cup {x}) = Cardinality(r) + 1
      BY <3>2, FS_AddElement
    <3> QED BY <3>1, <3>3
  <2>4. {} \in Q
    BY <2>1
  <2> HIDE DEF Q
  <2>5. u \in Q
    BY <2>2, <2>3, <2>4, SubsetInduction DEF Q
  <2> QED BY <2>5 DEF Q
<1>4. counts = h
  BY <1>3 DEF CountsOf
<1>5. AllKeys(T, key, G)
  BY DEF AllKeys
<1> HIDE DEF G, h, T
<1>6. SumsByKey(f, T, key, G, h)
  BY <1>5 DEF SumsByKey, h
<1>7. SameSum(f, T, h, G)
  BY <1>1, <1>2, <1>6, SumByKey
<1>8. DOMAIN h = G /\ SumFunctionOnSet(f, T) = M
  BY <1>1, <1>3 DEF h
<1> QED BY <1>4, <1>7, <1>8 DEF SameSum

\* positioning.py: for a window of any number of crawls, its totals are theirs, its rate
\* is between theirs, it is won when they all are and lost when they all are, and each
\* answer has one place in its rank distribution.
THEOREM WindowAlwaysPools ==
  ASSUME Figures, NEW Crawls, NEW snaps \in Seq(Crawls), snaps # <<>>, SnapshotsOf(Len(snaps), snaps),
         NEW Places, NEW answers \in Seq(Places), NEW organic
  PROVE  WindowPools(snaps, answers, organic)
<1> DEFINE w == Aggregate(snaps, answers, organic)
           one(i) == Aggregate(<<snaps[i]>>, <<>>, <<>>)
           N == Len(snaps)
           c == CitedIn(N, snaps)
           n == Answered(N, snaps)
           shown == Shown(snaps, answers)
           D == 1..N
<1>1. N \in Nat /\ DOMAIN snaps = D /\ D # {} /\ 1 \in D
  <2>1. N \in Nat /\ N # 0 /\ DOMAIN snaps = 1..N
    OBVIOUS
  <2> HIDE DEF N
  <2>2. 1 \in D
    BY <2>1
  <2> QED BY <2>1, <2>2
<1>2. Pools(N, snaps, w)
  BY <1>1, WindowIsPool
<1>3. \A i \in D :
         /\ one(i).samples = SampledIn(N, snaps)[i] /\ one(i).failed = FailedIn(N, snaps)[i] /\ one(i).cited = c[i]
         /\ one(i).mention = NamedIn(N, snaps)[i] /\ one(i).ok = n[i]
         /\ one(i).rate = Rate(c[i], n[i]) /\ one(i).won = Half(c[i], n[i])
  BY <1>1, OneIsItself
<1>4. PartsOf(D, c, n)
  BY <1>1, SnapshotFigures DEF PartsOf
<1>5. w.cited = SumFunctionOnSet(c, D) /\ w.ok = SumFunctionOnSet(n, D) /\ w.rate = Rate(w.cited, w.ok) /\ w.won = Half(w.cited, w.ok)
  BY <1>2 DEF Pools
<1>6. \A i \in D : c[i] \in Nat /\ n[i] \in Nat /\ c[i] <= n[i]
  BY <1>4 DEF PartsOf
<1>7. \A k \in {"samples", "failed", "cited", "mention"} : w[k] = Total(DOMAIN snaps, LAMBDA i : one(i)[k])
  <2>1. w.samples = Total(DOMAIN snaps, LAMBDA i : one(i).samples)
    <3>1. [i \in D |-> one(i).samples] = SampledIn(N, snaps)
      BY <1>3 DEF SampledIn
    <3> QED BY <1>1, <1>2, <3>1 DEF Pools, Total, SumFunction, SampledIn
  <2>2. w.failed = Total(DOMAIN snaps, LAMBDA i : one(i).failed)
    <3>1. [i \in D |-> one(i).failed] = FailedIn(N, snaps)
      BY <1>3 DEF FailedIn
    <3> QED BY <1>1, <1>2, <3>1 DEF Pools, Total, SumFunction, FailedIn
  <2>3. w.cited = Total(DOMAIN snaps, LAMBDA i : one(i).cited)
    <3>1. [i \in D |-> one(i).cited] = CitedIn(N, snaps)
      BY <1>3 DEF CitedIn
    <3> QED BY <1>1, <1>2, <3>1 DEF Pools, Total, SumFunction, CitedIn
  <2>4. w.mention = Total(DOMAIN snaps, LAMBDA i : one(i).mention)
    <3>1. [i \in D |-> one(i).mention] = NamedIn(N, snaps)
      BY <1>3 DEF NamedIn
    <3> QED BY <1>1, <1>2, <3>1 DEF Pools, Total, SumFunction, NamedIn
  <2> HIDE DEF w, one
  <2> SUFFICES ASSUME NEW k \in {"samples", "failed", "cited", "mention"}
               PROVE  w[k] = Total(DOMAIN snaps, LAMBDA i : one(i)[k])
    BY Zenon
  <2>5. CASE k = "samples"
    BY Zenon, <2>1, <2>5 DEF Total
  <2>6. CASE k = "failed"
    BY Zenon, <2>2, <2>6 DEF Total
  <2>7. CASE k = "cited"
    BY Zenon, <2>3, <2>7 DEF Total
  <2>8. CASE k = "mention"
    BY Zenon, <2>4, <2>8 DEF Total
  <2> QED BY Zenon, <2>5, <2>6, <2>7, <2>8
<1> DEFINE C == w.cited
           K == w.ok
<1>8. /\ C \in Nat /\ K \in Nat /\ C <= K /\ \A x \in D : n[x] <= K
      /\ \E x \in D : C * n[x] <= c[x] * K /\ (n[x] = 0 => K = 0)
      /\ \E x \in D : c[x] * K <= C * n[x] /\ (n[x] = 0 => K = 0)
  <2>1. C = SumFunctionOnSet(c, D) /\ K = SumFunctionOnSet(n, D)
    BY <1>5
  <2> HIDE DEF C, K, c, n, D
  <2> QED BY <1>4, <2>1, Mediant
<1>9. w.rate = Rate(C, K) /\ w.won = Half(C, K)
  BY <1>5
<1> HIDE DEF C, K, c, n
<1>10. PICK x \in D : C * n[x] <= c[x] * K /\ (n[x] = 0 => K = 0)
  BY <1>8
<1>11. PICK y \in D : c[y] * K <= C * n[y] /\ (n[y] = 0 => K = 0)
  BY <1>8
<1>12. c[x] \in Nat /\ n[x] \in Nat /\ c[y] \in Nat /\ n[y] \in Nat /\ n[x] <= K /\ n[y] <= K /\ C \in Nat /\ K \in Nat
  BY <1>6, <1>8
<1>13. Rate(c[y], n[y]) - 1 <= Rate(C, K) /\ Rate(C, K) <= Rate(c[x], n[x]) + 1
  <2>1. CASE K = 0
    <3>1. n[x] = 0 /\ n[y] = 0
      BY <1>12, <2>1
    <3> QED BY <2>1, <3>1 DEF Rate
  <2>2. CASE K # 0
    <3>1. K > 0 /\ n[x] > 0 /\ n[y] > 0
      BY <1>10, <1>11, <1>12, <2>2
    <3> DEFINE cx == c[x]
               nx == n[x]
               cy == c[y]
               ny == n[y]
    <3>2. Rate(C, K) \in Nat /\ Rate(cx, nx) \in Nat /\ Rate(cy, ny) \in Nat
      BY <1>12, <3>1, RateIs
    <3>3. C * nx <= cx * K /\ cy * K <= C * ny /\ cx \in Nat /\ nx \in Nat /\ cy \in Nat /\ ny \in Nat /\ nx > 0 /\ ny > 0
      BY <1>10, <1>11, <1>12, <3>1
    <3> HIDE DEF cx, nx, cy, ny
    <3>4. Rate(C, K) <= Rate(cx, nx)
      BY <1>12, <3>1, <3>3, RateOrders
    <3>5. Rate(cy, ny) <= Rate(C, K)
      BY <1>12, <3>1, <3>3, RateOrders
    <3>6. Rate(cy, ny) - 1 <= Rate(C, K) /\ Rate(C, K) <= Rate(cx, nx) + 1
      BY <3>2, <3>4, <3>5
    <3> QED BY <3>6 DEF cx, nx, cy, ny
  <2> QED BY <2>1, <2>2
<1>14. Half(c[y], n[y]) => Half(C, K)
  <2> SUFFICES ASSUME Half(c[y], n[y]) PROVE Half(C, K)
    OBVIOUS
  <2> DEFINE cy == c[y]
             ny == n[y]
  <2>1. ny > 0 /\ ny <= 2 * cy /\ K > 0 /\ cy \in Nat /\ ny \in Nat /\ cy * K <= C * ny
    BY <1>11, <1>12 DEF Half
  <2> HIDE DEF cy, ny
  <2>2. ny * K <= (2 * cy) * K
    BY <1>12, <2>1, TimesUp
  <2>3. (2 * cy) * K = 2 * (cy * K) /\ 2 * (C * ny) = (2 * C) * ny /\ cy * K \in Nat /\ C * ny \in Nat /\ ny * K = K * ny /\ K * ny \in Nat
    BY <1>12, <2>1
  <2>4. K * ny <= (2 * C) * ny
    BY <2>1, <2>2, <2>3
  <2>5. K <= 2 * C
    BY <1>12, <2>1, <2>4, TimesDown
  <2> QED BY <1>12, <2>1, <2>5 DEF Half
<1>15. ~ Half(c[x], n[x]) => ~ Half(C, K)
  <2> SUFFICES ASSUME Half(C, K) PROVE Half(c[x], n[x])
    OBVIOUS
  <2> DEFINE cx == c[x]
             nx == n[x]
  <2>1. K > 0 /\ K <= 2 * C /\ nx > 0 /\ cx \in Nat /\ nx \in Nat /\ C * nx <= cx * K
    BY <1>10, <1>12 DEF Half
  <2> HIDE DEF cx, nx
  <2>2. K * nx <= (2 * C) * nx
    BY <1>12, <2>1, TimesUp
  <2>3. (2 * C) * nx = 2 * (C * nx) /\ 2 * (cx * K) = (2 * cx) * K /\ C * nx \in Nat /\ cx * K \in Nat /\ K * nx = nx * K /\ nx * K \in Nat
    BY <1>12, <2>1
  <2>4. nx * K <= (2 * cx) * K
    BY <2>1, <2>2, <2>3
  <2>5. nx <= 2 * cx
    BY <1>12, <2>1, <2>4, TimesDown
  <2>6. Half(cx, nx)
    BY <2>1, <2>5 DEF Half
  <2> QED BY <2>6 DEF cx, nx
<1> DEFINE M == Len(shown)
<1>16. M \in Nat /\ DOMAIN shown = 1..M
  <2>1. CASE answers # <<>>
    <3>1. shown = answers
      BY <2>1 DEF Shown
    <3> QED BY <3>1
  <2>2. CASE answers = <<>>
    <3>1. shown = [i \in 1..N |-> [rank |-> snaps[i].best, domains |-> snaps[i].domains]]
      BY <1>1, <2>2 DEF Shown
    <3> HIDE DEF N
    <3>2. Len(shown) = N /\ DOMAIN shown = 1..N
      BY <1>1, <3>1
    <3> QED BY <1>1, <3>2
  <2> QED BY <2>1, <2>2
<1>17. w.ranks = Distribution(shown) /\ w.shares = Shares(shown) /\ w.best = Best({snaps[i].best : i \in DOMAIN snaps})
  BY DEF Aggregate
<1>18. Total(DOMAIN w.ranks, LAMBDA r : w.ranks[r]) = M
  <2> DEFINE key == [i \in 1..M |-> shown[i].rank]
             counts == w.ranks
  <2>1. CountsOf(M, key, counts)
    <3> HIDE DEF shown, w, M
    <3>1. \A r : {i \in 1..M : key[i] = r} = {i \in 1..M : shown[i].rank = r}
      OBVIOUS
    <3>2. {key[i] : i \in 1..M} = {shown[i].rank : i \in 1..M}
      OBVIOUS
    <3> QED BY <1>16, <1>17, <3>1, <3>2 DEF CountsOf, Distribution
  <2> HIDE DEF key, counts, M
  <2>2. SumFunctionOnSet(counts, DOMAIN counts) = M
    BY <1>16, <2>1, CountsAddUp
  <2>3. counts = [r \in DOMAIN counts |-> counts[r]]
    BY <2>1 DEF CountsOf
  <2>4. Total(DOMAIN counts, LAMBDA r : counts[r]) = SumFunction([r \in DOMAIN counts |-> counts[r]])
    BY DEF Total
  <2> QED BY <2>2, <2>3, <2>4 DEF SumFunction, counts
<1>19. \A d \in DOMAIN w.shares : w.shares[d] <= Scale
  <2> SUFFICES ASSUME NEW d \in DOMAIN w.shares PROVE w.shares[d] <= Scale
    OBVIOUS
  <2> DEFINE k == Cardinality({i \in DOMAIN shown : d \in shown[i].domains})
  <2>1. w.shares[d] = Rate(k, M)
    BY <1>17 DEF Shares
  <2>2. k \in Nat /\ k <= M
    <3>1. IsFiniteSet(1..M) /\ Cardinality(1..M) = M
      <4> HIDE DEF M
      <4>1. M \in Nat
        BY <1>16
      <4> QED BY <4>1, FS_Interval
    <3>2. {i \in DOMAIN shown : d \in shown[i].domains} \in SUBSET (1..M)
      BY <1>16
    <3> HIDE DEF M, shown
    <3> QED BY <3>1, <3>2, FS_Subset, FS_CardinalityType
  <2> HIDE DEF k, M
  <2>3. CASE M = 0
    BY <2>1, <2>3 DEF Rate, Figures
  <2>4. CASE M # 0
    <3>1. M > 0 /\ k * 1 <= 1 * M
      BY <1>16, <2>2, <2>4
    <3>2. Rate(k, M) <= Rate(1, 1)
      BY <1>16, <2>2, <3>1, RateOrders
    <3>3. Rate(1, 1) \in Nat /\ 2 * (Rate(1, 1) * 1) <= 2 * (1 * Scale) + 1 /\ 2 * (1 * Scale) + 1 < 2 * (Rate(1, 1) * 1) + 2 * 1
      BY RateIs
    <3>4. Rate(1, 1) = Scale
      BY <3>3 DEF Figures
    <3> QED BY <2>1, <3>2, <3>4
  <2> QED BY <2>3, <2>4
<1>20. answers = <<>> => Best(DOMAIN w.ranks \ {NoRank}) = w.best
  <2> SUFFICES ASSUME answers = <<>> PROVE Best(DOMAIN w.ranks \ {NoRank}) = w.best
    OBVIOUS
  <2> DEFINE R == {snaps[i].best : i \in DOMAIN snaps}
  <2>1. shown = [i \in DOMAIN snaps |-> [rank |-> snaps[i].best, domains |-> snaps[i].domains]]
    BY DEF Shown
  <2>2. DOMAIN w.ranks = R
    <3> HIDE DEF shown, w
    <3>1. DOMAIN w.ranks = {shown[i].rank : i \in DOMAIN shown}
      BY <1>17 DEF Distribution
    <3> QED BY <2>1, <3>1
  <2>3. (R \ {NoRank}) \ {NoRank} = R \ {NoRank}
    OBVIOUS
  <2> HIDE DEF R
  <2>4. Best(R \ {NoRank}) = Best(R)
    BY <2>3 DEF Best
  <2> QED BY <1>17, <2>2, <2>4 DEF R
<1>21. (\A i \in D : one(i).won) => w.won
  BY <1>3, <1>9, <1>14
<1>22. (\A i \in D : ~ one(i).won) => ~ w.won
  BY <1>3, <1>9, <1>15
<1>23. \E i, j \in D : one(i).rate - 1 <= w.rate /\ w.rate <= one(j).rate + 1
  BY <1>3, <1>9, <1>13
<1> HIDE DEF w, one, shown, D
<1> QED BY <1>1, <1>7, <1>18, <1>19, <1>20, <1>21, <1>22, <1>23 DEF WindowPools, w, one, shown
-----------------------------------------------------------------------------
(* A pair's verdict. *)

Thresholds ==
  /\ Figures /\ ZDen > 0 /\ Window \in Nat /\ MinCrawls \in Nat /\ MinOk \in Nat /\ MinOk > 0 /\ MaxAge \in Int
Crawl(Models) == [model : Models, age : Int, ok : Nat, cited : Nat, won : BOOLEAN]
\* A list of crawls, none cited by more answers than it has.
CrawlsIn(Models, N, h) == N \in Nat /\ h \in [1..N -> Crawl(Models)] /\ \A i \in 1..N : h[i].cited <= h[i].ok

\* The places of the crawls of the newest model, and of those with enough answers.
Same(h) == {i \in DOMAIN h : h[i].model = h[1].model}
Full(h) == {i \in Same(h) : h[i].ok >= MinOk}

PlacesIn(N, I) == I \in SUBSET (1..N)
EntriesIn(Models, h, I) ==
  /\ CrawlsIn(Models, Cardinality(I), Entries(h, I)) /\ IsFiniteSet(I) /\ I \in SUBSET Int
  /\ DOMAIN Entries(h, I) = 1..Cardinality(I)
  /\ \A n \in 1..Cardinality(I) : InTurn(I)[n] \in I /\ Entries(h, I)[n] = h[InTurn(I)[n]]
LEMMA EntriesTyped ==
  ASSUME NEW Models, NEW N, NEW h, CrawlsIn(Models, N, h), NEW I, PlacesIn(N, I)
  PROVE  EntriesIn(Models, h, I)
<1>1. N \in Nat /\ h \in [1..N -> Crawl(Models)] /\ \A i \in 1..N : h[i].cited <= h[i].ok
  BY DEF CrawlsIn
<1>2. IsFiniteSet(I) /\ I \in SUBSET Int
  BY <1>1, PlacesOf DEF PlacesIn
<1>3. Cardinality(I) \in Nat
  BY <1>2, FS_CardinalityType
<1>4. \A n \in 1..Cardinality(I) : InTurn(I)[n] \in I /\ Entries(h, I)[n] = h[InTurn(I)[n]]
  BY <1>2, EntriesOf
<1>5. Entries(h, I) = [n \in 1..Cardinality(I) |-> h[InTurn(I)[n]]]
  BY DEF Entries
<1>6. Entries(h, I) \in [1..Cardinality(I) -> Crawl(Models)] /\ DOMAIN Entries(h, I) = 1..Cardinality(I)
  BY <1>1, <1>4, <1>5 DEF PlacesIn
<1>7. \A n \in 1..Cardinality(I) : Entries(h, I)[n].cited <= Entries(h, I)[n].ok
  BY <1>1, <1>4 DEF PlacesIn
<1> QED BY <1>2, <1>3, <1>4, <1>6, <1>7 DEF CrawlsIn, EntriesIn

LEMMA UsableIs ==
  ASSUME NEW Models, NEW N, NEW h, CrawlsIn(Models, N, h)
  PROVE  /\ Comparable(h) = Entries(h, Same(h)) /\ Usable(h) = Entries(h, Full(h))
         /\ Same(h) \in SUBSET (1..N) /\ Full(h) \in SUBSET (1..N)
<1>1. DOMAIN h = 1..N
  BY DEF CrawlsIn
<1>2. Same(h) \in SUBSET (1..N) /\ Full(h) \in SUBSET (1..N) /\ Full(h) \in SUBSET Same(h)
  BY <1>1 DEF Same, Full
<1>3. Comparable(h) = Entries(h, Same(h))
  BY DEF Comparable, Those, Same
<1> DEFINE X == Same(h)
           s == Entries(h, X)
           J == {n \in DOMAIN s : s[n].ok >= MinOk}
<1>4. IsFiniteSet(X) /\ X \in SUBSET Int /\ DOMAIN s = 1..Cardinality(X)
  <2>1. PlacesIn(N, X)
    BY <1>2 DEF PlacesIn
  <2> HIDE DEF X
  <2> QED BY <2>1, EntriesTyped DEF EntriesIn
<1>5. Filters(h, X, J, Full(h))
  <2> HIDE DEF s
  <2>1. \A i \in X : \A n \in DOMAIN s : s[n] = h[i] => (n \in J <=> i \in Full(h))
    BY DEF Full
  <2> HIDE DEF J, X
  <2> QED BY <1>2, <1>4, <2>1 DEF Filters, s, X, J
<1>6. Entries(s, J) = Entries(h, Full(h))
  <2> HIDE DEF J, X
  <2> QED BY <1>4, <1>5, ThoseWithin DEF s
<1>7. Usable(h) = Entries(s, J)
  BY <1>3 DEF Usable, Those
<1> QED BY <1>2, <1>3, <1>6, <1>7

\* The first of a list.
LEMMA PrefixOf ==
  ASSUME NEW Models, NEW N, NEW s, CrawlsIn(Models, N, s), NEW k \in Nat
  PROVE  /\ Least(k, N) \in Nat /\ CrawlsIn(Models, Least(k, N), Prefix(s, k)) /\ Len(Prefix(s, k)) = Least(k, N)
         /\ Prefix(s, k) = [i \in 1..Least(k, N) |-> s[i]]
<1> DEFINE m == Least(k, N)
           V == Crawl(Models)
<1>1. N \in Nat /\ s \in [1..N -> V] /\ \A i \in 1..N : s[i].cited <= s[i].ok
  BY DEF CrawlsIn
<1> HIDE DEF V
<1>2. s \in Seq(V) /\ Len(s) = N
  BY <1>1
<1>3. m \in 0..N
  BY <1>1 DEF Least
<1>4. Prefix(s, k) = SubSeq(s, 1, m)
  BY <1>2 DEF Prefix
<1> HIDE DEF m
<1>5. SubSeq(s, 1, m) = [i \in 1..m |-> s[i]]
  BY <1>2, <1>3
<1> DEFINE p == Prefix(s, k)
<1>6. p = [i \in 1..m |-> s[i]]
  BY <1>4, <1>5
<1> HIDE DEF p
<1>7. p \in [1..m -> V] /\ \A i \in 1..m : p[i].cited <= p[i].ok
  BY <1>1, <1>3, <1>6
<1>8. Len(p) = m
  BY <1>3, <1>6
<1> QED BY <1>3, <1>6, <1>7, <1>8 DEF CrawlsIn, p, m, V

\* What an older history admits at all, when it fills the window, a newer one admits.
LEMMA OlderAdmitsTheSame ==
  ASSUME Thresholds, NEW Models, NEW N, NEW h, CrawlsIn(Models, N, h), NEW older \in 1..N,
         Len(Admitted(Prefix(h, older))) = Window
  PROVE  Admitted(Prefix(h, older)) = Admitted(h)
<1> DEFINE g == Prefix(h, older)
           F == Full(h)
           G == Full(g)
           u == Usable(h)
           v == Usable(g)
           K == Cardinality(F)
           M == Cardinality(G)
<1>1. N \in Nat /\ Window \in Nat /\ older \in Nat /\ Least(older, N) = older /\ DOMAIN h = 1..N
  BY DEF CrawlsIn, Thresholds, Least
<1>2. CrawlsIn(Models, older, g) /\ g = [i \in 1..older |-> h[i]]
  BY <1>1, PrefixOf
<1> HIDE DEF g
<1>3. DOMAIN g = 1..older /\ g[1] = h[1] /\ \A i \in 1..older : g[i] = h[i]
  BY <1>2
<1>4. G = {i \in F : i <= older}
  <2>1. \A i : i \in G <=> i \in 1..older /\ h[i].model = h[1].model /\ h[i].ok >= MinOk
    BY <1>3 DEF Full, Same
  <2>2. \A i : i \in F <=> i \in 1..N /\ h[i].model = h[1].model /\ h[i].ok >= MinOk
    BY <1>1 DEF Full, Same
  <2> HIDE DEF F, G
  <2> QED BY <1>1, <2>1, <2>2
<1>5. u = Entries(h, F) /\ F \in SUBSET (1..N) /\ v = Entries(g, G) /\ G \in SUBSET (1..older)
  BY <1>2, UsableIs
<1> HIDE DEF F, G, u, v
<1>6. CrawlsIn(Models, K, u) /\ IsFiniteSet(F) /\ F \in SUBSET Int /\ \A n \in 1..K : u[n] = h[InTurn(F)[n]]
  <2>1. PlacesIn(N, F)
    BY <1>5 DEF PlacesIn
  <2>2. EntriesIn(Models, h, F)
    BY <2>1, EntriesTyped
  <2> QED BY <1>5, <2>2 DEF EntriesIn
<1>7. CrawlsIn(Models, M, v) /\ IsFiniteSet(G) /\ G \in SUBSET Int /\ \A n \in 1..M : InTurn(G)[n] \in G /\ v[n] = g[InTurn(G)[n]]
  <2>1. PlacesIn(older, G)
    BY <1>5 DEF PlacesIn
  <2>2. EntriesIn(Models, g, G)
    BY <1>2, <2>1, EntriesTyped
  <2> QED BY <1>5, <2>2 DEF EntriesIn
<1>8. K \in Nat /\ M \in Nat /\ M <= K
  <2>1. G \in SUBSET F
    BY <1>4
  <2> QED BY <1>6, <2>1, FS_Subset, FS_CardinalityType
<1> DEFINE Smaller(i) == {j \in G : j < i}
<1>9. \A i \in G : Cardinality(Smaller(i)) + 1 \in 1..M
  <2> SUFFICES ASSUME NEW i \in G PROVE Cardinality(Smaller(i)) + 1 \in 1..M
    OBVIOUS
  <2>1. Smaller(i) \in SUBSET (G \ {i})
    BY <1>7
  <2>2. IsFiniteSet(G \ {i}) /\ Cardinality(G \ {i}) = Cardinality(G) - 1
    BY <1>7, FS_RemoveElement
  <2> HIDE DEF Smaller
  <2>3. Cardinality(Smaller(i)) \in Nat /\ Cardinality(Smaller(i)) <= Cardinality(G \ {i})
    BY <2>1, <2>2, FS_Subset, FS_CardinalityType
  <2>4. M = Cardinality(G)
    OBVIOUS
  <2> HIDE DEF M
  <2> DEFINE q == Cardinality(Smaller(i))
  <2>5. q \in Nat /\ q <= M - 1
    BY <2>2, <2>3, <2>4
  <2> HIDE DEF q
  <2>6. q + 1 \in 1..M
    BY <1>8, <2>5
  <2> QED BY <2>6 DEF q
<1>10. \A n \in 1..M : InTurn(F)[n] = InTurn(G)[n]
  <2> SUFFICES ASSUME NEW n \in 1..M PROVE InTurn(F)[n] = InTurn(G)[n]
    OBVIOUS
  <2>1. \A i \in F : InTurn(F)[Cardinality({j \in F : j < i}) + 1] = i
    BY <1>6, InTurnUp
  <2>2. \A i \in G : InTurn(G)[Cardinality({j \in G : j < i}) + 1] = i
    BY <1>7, InTurnUp
  <2> DEFINE i == InTurn(G)[n]
             r == Cardinality({j \in F : j < i}) + 1
  <2>3. i \in G /\ i \in F /\ i \in Int
    BY <1>4, <1>7
  <2>4. \A j \in F : j < i => j <= older
    BY <1>4, <1>1, <1>6, <2>3
  <2>5. {j \in G : j < i} = {j \in F : j < i}
    BY <1>4, <2>4
  <2>6. InTurn(F)[r] = i /\ InTurn(G)[r] = i
    BY <2>1, <2>2, <2>3, <2>5
  <2>7. r \in 1..M
    BY <1>9, <2>3, <2>5
  <2>8. \A x, y \in 1..M : x < y <=> InTurn(G)[x] < InTurn(G)[y]
    BY <1>7, InTurnUp
  <2>9. r = n
    <3> HIDE DEF r
    <3> QED BY <1>8, <2>3, <2>6, <2>7, <2>8
  <2> QED BY <2>6, <2>9
<1>11. \A n \in 1..M : v[n] = u[n]
  <2>1. \A n \in 1..M : n \in 1..K /\ InTurn(G)[n] \in 1..older
    <3>1. \A n \in 1..M : InTurn(G)[n] \in 1..older
      BY <1>5, <1>7
    <3> HIDE DEF M, K
    <3>2. \A n \in 1..M : n \in 1..K
      BY <1>8
    <3> QED BY <3>1, <3>2
  <2> QED BY <1>3, <1>6, <1>7, <1>10, <2>1
<1>12. Admitted(g) = Prefix(v, Window) /\ Admitted(h) = Prefix(u, Window)
  BY DEF Admitted, u, v
<1> DEFINE a == Least(Window, M)
           b == Least(Window, K)
<1>13. Len(Prefix(v, Window)) = a /\ Prefix(v, Window) = [i \in 1..a |-> v[i]]
  BY <1>1, <1>7, PrefixOf
<1>14. Prefix(u, Window) = [i \in 1..b |-> u[i]]
  BY <1>1, <1>6, PrefixOf
<1>15. a = Window /\ Window <= M /\ b = Window
  <2>1. a = Window
    BY <1>12, <1>13 DEF g
  <2> QED BY <1>1, <1>8, <2>1 DEF Least
<1>16. [i \in 1..Window |-> v[i]] = [i \in 1..Window |-> u[i]]
  BY <1>1, <1>8, <1>11, <1>15
<1> QED BY <1>12, <1>13, <1>14, <1>15, <1>16 DEF g

\* The comparable crawls of a history are a history with the same verdict.
LEMMA ComparableAgrees ==
  ASSUME NEW Models, NEW N, NEW h, CrawlsIn(Models, N, h), h # <<>>
  PROVE  Classify(Comparable(h)) = Classify(h)
<1> DEFINE X == Same(h)
           c == Comparable(h)
           K == Cardinality(X)
           V == Crawl(Models)
<1>1. N \in Nat /\ DOMAIN h = 1..N /\ h \in [1..N -> V] /\ N # 0
  <2>1. N \in Nat /\ h \in [1..N -> V] /\ DOMAIN h = 1..N
    BY DEF CrawlsIn
  <2> HIDE DEF V
  <2>2. N # 0
    BY <2>1
  <2> QED BY <2>1, <2>2
<1>2. X \in SUBSET (1..N) /\ 1 \in X /\ \A i \in X : h[i].model = h[1].model
  BY <1>1 DEF Same
<1>3. EntriesIn(Models, h, X)
  BY <1>2, EntriesTyped DEF PlacesIn
<1>4. c = Entries(h, X)
  BY UsableIs
<1> HIDE DEF X, c, V
<1>5. CrawlsIn(Models, K, c) /\ IsFiniteSet(X) /\ \A n \in 1..K : InTurn(X)[n] \in X /\ c[n] = h[InTurn(X)[n]]
  BY <1>3, <1>4 DEF EntriesIn
<1>6. K \in Nat /\ K # 0
  <2>1. K # 0
    BY <1>2, <1>5, FS_EmptySet
  <2> QED BY <1>5, <2>1 DEF CrawlsIn
<1> HIDE DEF K
<1>7. c \in [1..K -> V] /\ DOMAIN c = 1..K
  BY <1>5 DEF CrawlsIn, V
<1>8. Same(c) = 1..K
  <2>1. \A n \in 1..K : c[n].model = h[1].model
    BY <1>2, <1>5
  <2>2. c[1].model = h[1].model
    BY <1>6, <2>1
  <2> QED BY <1>7, <2>1, <2>2 DEF Same
<1>9. Comparable(c) = c
  <2>1. Comparable(c) = Entries(c, Same(c))
    BY <1>5, UsableIs
  <2>2. Entries(c, 1..K) = c
    BY <1>6, <1>7, EntriesAll
  <2> QED BY <1>8, <2>1, <2>2
<1>10. Usable(c) = Usable(h)
  BY <1>9 DEF Usable, c
<1>11. Admitted(c) = Admitted(h)
  BY <1>10 DEF Admitted
<1>12. Failing(c) <=> Failing(h)
  BY <1>9 DEF Failing, c
<1>13. c # <<>>
  BY <1>6, <1>7
<1>14. Classify(c) = Classify(h)
  <2>1. Comparable(c) = Comparable(h)
    BY <1>9 DEF c
  <2> QED BY <1>10, <1>11, <1>12, <1>13, <2>1 DEF Classify
<1> QED BY <1>14 DEF c

\* A list of crawls and the list where each is cited by the other answers.
Flipped(Models, N, u, v) ==
  /\ CrawlsIn(Models, N, u) /\ CrawlsIn(Models, N, v)
  /\ \A i \in 1..N : /\ v[i].model = u[i].model /\ v[i].age = u[i].age /\ v[i].ok = u[i].ok
                     /\ v[i].cited = u[i].ok - u[i].cited /\ (v[i].won <=> ~ u[i].won)

LEMMA MirrorFlips ==
  ASSUME NEW Models, NEW N, NEW h, CrawlsIn(Models, N, h)
  PROVE  Flipped(Models, N, h, Mirror(h))
<1>1. N \in Nat /\ h \in [1..N -> Crawl(Models)] /\ DOMAIN h = 1..N /\ \A i \in 1..N : h[i].cited <= h[i].ok
  BY DEF CrawlsIn
<1>2. ASSUME NEW i \in 1..N
      PROVE  LET x == h[i]
                 y == [h[i] EXCEPT !.cited = h[i].ok - @, !.won = ~ @] IN
             /\ y \in Crawl(Models) /\ y.model = x.model /\ y.age = x.age /\ y.ok = x.ok
             /\ y.cited = x.ok - x.cited /\ y.won = ~ x.won /\ y.cited <= y.ok
  <2> DEFINE x == h[i]
  <2>1. x \in Crawl(Models) /\ x.cited <= x.ok
    BY <1>1
  <2> HIDE DEF x
  <2>2. x.ok - x.cited \in Nat /\ x.ok - x.cited <= x.ok /\ (~ x.won) \in BOOLEAN
    BY <2>1 DEF Crawl
  <2> DEFINE y == [x EXCEPT !.cited = x.ok - @, !.won = ~ @]
  <2>3. /\ y \in Crawl(Models) /\ y.model = x.model /\ y.age = x.age /\ y.ok = x.ok
        /\ y.cited = x.ok - x.cited /\ y.won = ~ x.won
    BY <2>1, <2>2 DEF Crawl
  <2> HIDE DEF y
  <2>4. y.cited <= y.ok
    BY <2>2, <2>3
  <2> QED BY <2>3, <2>4 DEF x, y
<1> DEFINE g == Mirror(h)
<1>3. g = [i \in 1..N |-> [h[i] EXCEPT !.cited = h[i].ok - @, !.won = ~ @]]
  BY <1>1 DEF Mirror
<1> HIDE DEF g
<1>4. \A i \in 1..N : g[i] = [h[i] EXCEPT !.cited = h[i].ok - @, !.won = ~ @]
  BY <1>3
<1>5. g \in [1..N -> Crawl(Models)] /\ \A i \in 1..N : g[i].cited <= g[i].ok
  BY <1>2, <1>3, <1>4
<1>6. \A i \in 1..N : /\ g[i].model = h[i].model /\ g[i].age = h[i].age /\ g[i].ok = h[i].ok
                      /\ g[i].cited = h[i].ok - h[i].cited /\ (g[i].won <=> ~ h[i].won)
  BY <1>2, <1>4
<1> QED BY <1>1, <1>5, <1>6 DEF Flipped, CrawlsIn, g

LEMMA EntriesFlip ==
  ASSUME NEW Models, NEW N, NEW u, NEW v, Flipped(Models, N, u, v), NEW I, PlacesIn(N, I)
  PROVE  Flipped(Models, Cardinality(I), Entries(u, I), Entries(v, I))
<1>1. EntriesIn(Models, u, I) /\ EntriesIn(Models, v, I)
  BY EntriesTyped DEF Flipped
<1>2. \A n \in 1..Cardinality(I) : InTurn(I)[n] \in 1..N
  BY <1>1 DEF EntriesIn, PlacesIn
<1>3. \A n \in 1..Cardinality(I) : Entries(u, I)[n] = u[InTurn(I)[n]] /\ Entries(v, I)[n] = v[InTurn(I)[n]]
  BY <1>1 DEF EntriesIn
<1>4. CrawlsIn(Models, Cardinality(I), Entries(u, I)) /\ CrawlsIn(Models, Cardinality(I), Entries(v, I))
  BY <1>1 DEF EntriesIn
<1> QED BY <1>2, <1>3, <1>4 DEF Flipped

LEMMA PrefixFlips ==
  ASSUME NEW Models, NEW N, NEW u, NEW v, Flipped(Models, N, u, v), NEW k \in Nat
  PROVE  Flipped(Models, Least(k, N), Prefix(u, k), Prefix(v, k))
<1>1. CrawlsIn(Models, N, u) /\ CrawlsIn(Models, N, v) /\ N \in Nat
  BY DEF Flipped, CrawlsIn
<1> DEFINE m == Least(k, N)
<1>2. m \in 0..N
  BY <1>1 DEF Least
<1>3. CrawlsIn(Models, m, Prefix(u, k)) /\ Prefix(u, k) = [i \in 1..m |-> u[i]]
  BY <1>1, PrefixOf
<1>4. CrawlsIn(Models, m, Prefix(v, k)) /\ Prefix(v, k) = [i \in 1..m |-> v[i]]
  BY <1>1, PrefixOf
<1> DEFINE p == Prefix(u, k)
           q == Prefix(v, k)
<1>5. \A i \in 1..m : i \in 1..N /\ p[i] = u[i] /\ q[i] = v[i]
  <2>1. p = [i \in 1..m |-> u[i]] /\ q = [i \in 1..m |-> v[i]]
    BY <1>3, <1>4
  <2> HIDE DEF p, q, m
  <2> QED BY <1>1, <1>2, <2>1
<1>6. CrawlsIn(Models, m, p) /\ CrawlsIn(Models, m, q)
  BY <1>3, <1>4
<1> HIDE DEF p, q, m
<1>7. Flipped(Models, m, p, q)
  BY <1>5, <1>6 DEF Flipped
<1> QED BY <1>7 DEF p, q, m

\* What is filtered and cut of the mirror is the mirror of what is filtered and cut.
LEMMA MirrorKept ==
  ASSUME Window \in Nat, NEW Models, NEW N, NEW h, CrawlsIn(Models, N, h)
  PROVE  /\ \E K : Flipped(Models, K, Comparable(h), Comparable(Mirror(h)))
         /\ \E K : Flipped(Models, K, Usable(h), Usable(Mirror(h)))
         /\ \E K : Flipped(Models, K, Admitted(h), Admitted(Mirror(h)))
<1> DEFINE g == Mirror(h)
           X == Same(h)
           Y == Full(h)
<1>1. Flipped(Models, N, h, g)
  BY MirrorFlips
<1> HIDE DEF g
<1>2. DOMAIN h = 1..N /\ DOMAIN g = 1..N /\ CrawlsIn(Models, N, g) /\ N \in Nat
  BY <1>1 DEF Flipped, CrawlsIn
<1>3. \A i \in 1..N : g[i].model = h[i].model /\ g[i].ok = h[i].ok
  BY <1>1 DEF Flipped
<1>4. Same(g) = X
  <2>1. ASSUME NEW i \in 1..N PROVE 1 \in 1..N
    BY <1>2
  <2>2. \A i \in 1..N : g[1].model = h[1].model
    BY <1>3, <2>1
  <2> QED BY <1>2, <1>3, <2>2 DEF Same
<1>5. Full(g) = Y
  <2>1. X \in SUBSET (1..N)
    BY <1>2 DEF Same
  <2> QED BY <1>3, <1>4, <2>1 DEF Full
<1>6. Comparable(h) = Entries(h, X) /\ Usable(h) = Entries(h, Y) /\ X \in SUBSET (1..N) /\ Y \in SUBSET (1..N)
  BY UsableIs
<1>7. Comparable(g) = Entries(g, X) /\ Usable(g) = Entries(g, Y)
  BY <1>2, <1>4, <1>5, UsableIs
<1> HIDE DEF X, Y
<1>8. PlacesIn(N, X) /\ PlacesIn(N, Y)
  BY <1>6 DEF PlacesIn
<1>9. Flipped(Models, Cardinality(X), Comparable(h), Comparable(g))
  BY <1>1, <1>6, <1>7, <1>8, EntriesFlip
<1>10. Flipped(Models, Cardinality(Y), Usable(h), Usable(g))
  BY <1>1, <1>6, <1>7, <1>8, EntriesFlip
<1>11. Flipped(Models, Least(Window, Cardinality(Y)), Admitted(h), Admitted(g))
  <2>1. Admitted(h) = Prefix(Usable(h), Window) /\ Admitted(g) = Prefix(Usable(g), Window)
    BY DEF Admitted
  <2> QED BY <1>10, <2>1, PrefixFlips
<1> QED BY <1>9, <1>10, <1>11 DEF g

LEMMA FlippedAlike ==
  ASSUME NEW Models, NEW N, NEW u, NEW v, Flipped(Models, N, u, v)
  PROVE  /\ N \in Nat /\ Len(u) = N /\ Len(v) = N /\ (u = <<>> <=> N = 0) /\ (v = <<>> <=> N = 0)
         /\ Flips(v) = Flips(u) /\ Streak(v) = Streak(u)
         /\ (N > 0 => v[1].age = u[1].age) /\ \A i \in 1..N : v[i].ok = u[i].ok
<1> DEFINE V == Crawl(Models)
<1>1. N \in Nat /\ u \in [1..N -> V] /\ v \in [1..N -> V]
  BY DEF Flipped, CrawlsIn
<1>2. \A i \in 1..N : v[i].age = u[i].age /\ v[i].ok = u[i].ok /\ (v[i].won <=> ~ u[i].won) /\ v[i].won \in BOOLEAN /\ u[i].won \in BOOLEAN
  <2>1. \A i \in 1..N : u[i] \in Crawl(Models) /\ v[i] \in Crawl(Models)
    BY <1>1
  <2>2. \A x \in Crawl(Models) : x.won \in BOOLEAN
    BY DEF Crawl
  <2> QED BY <2>1, <2>2 DEF Flipped
<1> HIDE DEF V
<1>3. Len(u) = N /\ Len(v) = N /\ DOMAIN u = 1..N /\ DOMAIN v = 1..N
  BY <1>1
<1>4. \A i, j \in 1..N : v[i].won # v[j].won <=> u[i].won # u[j].won
  BY <1>2, Zenon
<1>5. Flips(v) = Flips(u)
  <2>1. \A i \in 1..(N - 1) : i \in 1..N /\ i + 1 \in 1..N
    BY <1>1
  <2>2. {i \in 1..(N - 1) : v[i].won # v[i + 1].won} = {i \in 1..(N - 1) : u[i].won # u[i + 1].won}
    BY <1>4, <2>1
  <2> QED BY <1>3, <2>2 DEF Flips
<1>6. Streak(v) = Streak(u)
  <2>1. \A i \in 1..N : 1 \in 1..N
    BY <1>1
  <2>2. {j \in 1..N : v[j].won # v[1].won} = {j \in 1..N : u[j].won # u[1].won}
    BY <1>4, <2>1
  <2>3. {j \in DOMAIN v : v[j].won # v[1].won} = {j \in DOMAIN u : u[j].won # u[1].won}
    BY <1>3, <2>2
  <2> QED BY <1>3, <2>3, Zenon DEF Streak
<1>7. (u = <<>> <=> N = 0) /\ (v = <<>> <=> N = 0)
  BY <1>1, <1>3
<1>8. N > 0 => v[1].age = u[1].age
  BY <1>1, <1>2
<1> QED BY <1>1, <1>2, <1>3, <1>5, <1>6, <1>7, <1>8

\* The answers behind a list of crawls.
LEMMA AnswersOf ==
  ASSUME NEW Models, NEW N, NEW a, CrawlsIn(Models, N, a), N > 0, \A i \in 1..N : a[i].ok > 0
  PROVE  /\ Answers(a) \in Nat /\ Answers(a) > 0 /\ CitedAnswers(a) \in Nat /\ CitedAnswers(a) <= Answers(a)
         /\ Answers(a) = SumFunctionOnSet([i \in 1..N |-> a[i].ok], 1..N)
         /\ CitedAnswers(a) = SumFunctionOnSet([i \in 1..N |-> a[i].cited], 1..N)
<1> DEFINE n == [i \in 1..N |-> a[i].ok]
           c == [i \in 1..N |-> a[i].cited]
           D == 1..N
<1>1. N \in Nat /\ DOMAIN a = D /\ \A i \in D : a[i].ok \in Nat /\ a[i].cited \in Nat /\ a[i].cited <= a[i].ok
  <2>1. \A x \in Crawl(Models) : x.ok \in Nat /\ x.cited \in Nat
    BY DEF Crawl
  <2>2. N \in Nat /\ DOMAIN a = D /\ \A i \in D : a[i] \in Crawl(Models) /\ a[i].cited <= a[i].ok
    BY DEF CrawlsIn
  <2> QED BY <2>1, <2>2
<1>2. IsFiniteSet(D) /\ D # {} /\ 1 \in D
  BY <1>1, FS_Interval
<1>3. c \in [D -> Nat] /\ n \in [D -> Nat] /\ \A i \in D : c[i] <= n[i] /\ n[i] > 0
  BY <1>1
<1>4. Over(a, LAMBDA s : s.ok) = SumFunctionOnSet(n, D) /\ Over(a, LAMBDA s : s.cited) = SumFunctionOnSet(c, D)
  BY <1>1 DEF Over, Total, SumFunction
<1> DEFINE p == SumFunctionOnSet(n, D)
           q == SumFunctionOnSet(c, D)
<1>5. Answers(a) = p /\ CitedAnswers(a) = Least(q, p)
  BY <1>4 DEF Answers, CitedAnswers
<1> HIDE DEF n, c, D
<1>6. PartsOf(D, c, n)
  BY <1>2, <1>3 DEF PartsOf
<1>7. p \in Nat /\ q \in Nat /\ q <= p /\ \A i \in D : n[i] <= p
  BY <1>6, Mediant
<1>8. p > 0
  <2>1. n[1] \in Nat /\ n[1] > 0 /\ n[1] <= p
    BY <1>2, <1>3, <1>7
  <2> QED BY <1>7, <2>1
<1>9. Least(q, p) = q
  BY <1>7 DEF Least
<1> QED BY <1>5, <1>7, <1>8, <1>9 DEF n, c, D

LEMMA FlippedAnswers ==
  ASSUME NEW Models, NEW N, NEW a, NEW b, Flipped(Models, N, a, b), N > 0, \A i \in 1..N : a[i].ok > 0
  PROVE  Answers(b) = Answers(a) /\ CitedAnswers(b) = Answers(a) - CitedAnswers(a)
<1> DEFINE n == [i \in 1..N |-> a[i].ok]
           c == [i \in 1..N |-> a[i].cited]
           m == [i \in 1..N |-> b[i].ok]
           d == [i \in 1..N |-> b[i].cited]
           D == 1..N
<1>1. CrawlsIn(Models, N, a) /\ CrawlsIn(Models, N, b) /\ N \in Nat
  BY DEF Flipped, CrawlsIn
<1>2. \A i \in D : b[i].ok = a[i].ok /\ b[i].cited = a[i].ok - a[i].cited
  BY DEF Flipped
<1>3. \A i \in D : a[i].ok \in Nat /\ a[i].cited \in Nat /\ b[i].cited \in Nat
  <2>1. \A x \in Crawl(Models) : x.ok \in Nat /\ x.cited \in Nat
    BY DEF Crawl
  <2>2. \A i \in D : a[i] \in Crawl(Models) /\ b[i] \in Crawl(Models)
    BY <1>1 DEF CrawlsIn
  <2> QED BY <2>1, <2>2
<1>4. m = n
  BY <1>2
<1>5. n \in [D -> Int] /\ c \in [D -> Int] /\ d \in [D -> Int] /\ \A i \in D : n[i] = c[i] + d[i]
  BY <1>2, <1>3
<1>6. IsFiniteSet(D)
  BY <1>1, FS_Interval
<1>7. /\ Answers(a) \in Nat /\ CitedAnswers(a) \in Nat
      /\ Answers(a) = SumFunctionOnSet(n, D) /\ CitedAnswers(a) = SumFunctionOnSet(c, D)
  BY <1>1, AnswersOf
<1>8. Answers(b) = SumFunctionOnSet(m, D) /\ CitedAnswers(b) = SumFunctionOnSet(d, D) /\ CitedAnswers(b) \in Nat
  <2>1. \A i \in 1..N : b[i].ok > 0
    BY <1>2
  <2> QED BY <1>1, <2>1, AnswersOf
<1> HIDE DEF n, c, m, d, D
<1>9. SumFunctionOnSet(n, D) = SumFunctionOnSet(c, D) + SumFunctionOnSet(d, D)
  BY <1>5, <1>6, SumPlus
<1> QED BY <1>4, <1>7, <1>8, <1>9

\* The rate of the other answers is the rest, but for rounding.
LEMMA CoinMirrors ==
  ASSUME Figures, NEW c \in Nat, NEW n \in Nat, n > 0, c <= n
  PROVE  CoinFlip(Rate(n - c, n)) - CoinFlip(Rate(c, n)) \in -2..2 /\ CoinFlip(Rate(c, n)) \in Int /\ CoinFlip(Rate(n - c, n)) \in Int
<1> DEFINE p == Rate(c, n)
           q == Rate(n - c, n)
           d == n - c
           cs == c * Scale
           ds == d * Scale
           ns == n * Scale
           pn == p * n
           qn == q * n
<1>1. d \in Nat /\ Scale \in Nat /\ Scale > 0
  BY DEF Figures
<1>2. p \in Nat /\ 2 * pn <= 2 * cs + n /\ 2 * cs + n < 2 * pn + 2 * n
  BY RateIs
<1>3. q \in Nat /\ 2 * qn <= 2 * ds + n /\ 2 * ds + n < 2 * qn + 2 * n
  <2> HIDE DEF d
  <2>1. n - c = d
    BY DEF d
  <2> QED BY <1>1, <2>1, RateIs
<1> HIDE DEF p, q
<1>4. cs \in Nat /\ ds \in Nat /\ ns \in Nat /\ pn \in Nat /\ qn \in Nat /\ cs + ds = ns
  <2>1. (c + d) * Scale = cs + ds /\ c + d = n
    BY <1>1
  <2> QED BY <1>1, <1>2, <1>3, <2>1
<1> DEFINE r == p + q
           rn == r * n
           un == (Scale + 2) * n
           vn == (Scale - 1) * n
<1>5. rn = pn + qn /\ un = ns + 2 * n /\ vn = ns - n
  BY <1>1, <1>2, <1>3
<1> HIDE DEF cs, ds, ns, pn, qn, rn, un, vn, d
<1>6. rn < un /\ vn < rn
  BY <1>2, <1>3, <1>4, <1>5
<1>7. r \in Nat /\ Scale - 1 < r /\ r < Scale + 2
  <2>1. r \in Nat
    BY <1>2, <1>3
  <2> HIDE DEF r
  <2>2. ~ (r <= Scale - 1)
    <3> SUFFICES ASSUME r <= Scale - 1 PROVE FALSE
      OBVIOUS
    <3>1. r * n <= (Scale - 1) * n
      BY <1>1, <2>1, TimesUp
    <3>2. rn \in Int /\ vn \in Int
      BY <1>4, <1>5
    <3> QED BY <1>6, <3>1, <3>2 DEF rn, vn
  <2>3. ~ (Scale + 2 <= r)
    <3> SUFFICES ASSUME Scale + 2 <= r PROVE FALSE
      OBVIOUS
    <3>1. (Scale + 2) * n <= r * n
      BY <1>1, <2>1, TimesUp
    <3>2. rn \in Int /\ un \in Int
      BY <1>4, <1>5
    <3> QED BY <1>6, <3>1, <3>2 DEF rn, un
  <2> QED BY <1>1, <2>1, <2>2, <2>3
<1>8. CoinFlip(q) - CoinFlip(p) \in -2..2 /\ CoinFlip(p) \in Int /\ CoinFlip(q) \in Int
  BY <1>1, <1>2, <1>3, <1>7 DEF CoinFlip, Least, r
<1> QED BY <1>8 DEF p, q

LEMMA StraddlesMirror ==
  ASSUME NEW c \in Nat, NEW n \in Nat, c <= n, ZDen \in Nat
  PROVE  Straddles(n - c, n) <=> Straddles(c, n)
<1> DEFINE e == 2 * c - n
           f == 2 * (n - c) - n
<1>1. e \in Int /\ f = 0 - e
  OBVIOUS
<1> HIDE DEF e, f
<1>2. ZDen * f * f = ZDen * e * e
  BY <1>1
<1> QED BY <1>2 DEF Straddles, e, f

\* A rate below a half that does not straddle it has its band below it.
LEMMA BandBelow ==
  ASSUME Thresholds, NEW c \in Nat, NEW n \in Nat, n > 0, 2 * c <= n, ~ Straddles(c, n)
  PROVE  2 * High(c, n) <= Scale + 2
<1> DEFINE g == (Scale \div 2) + 1
           e == n - 2 * c
           S == Scale
<1>1. S \in Nat /\ S > 0 /\ ZNum \in Nat /\ ZDen \in Nat /\ ZDen > 0
  BY DEF Thresholds, Figures
<1>2. g \in Nat /\ g <= S /\ S + 1 <= 2 * g /\ 2 * g <= S + 2
  BY <1>1
<1> HIDE DEF g
<1>3. e \in Nat /\ ZNum * n <= ZDen * e * e
  <2> DEFINE x == 2 * c - n
  <2>1. x \in Int /\ x = 0 - e /\ e \in Nat
    OBVIOUS
  <2>2. ~ (ZDen * x * x < ZNum * n)
    BY DEF Straddles
  <2> HIDE DEF x, e
  <2>3. ZDen * x * x = ZDen * e * e /\ ZDen * e * e \in Nat /\ ZNum * n \in Nat
    BY <1>1, <2>1
  <2> QED BY <2>1, <2>2, <2>3
<1> DEFINE t == g * n - c * S
           gn == g * n
           cs == c * S
           Sn == S * n
           Se == S * e
<1>4. gn \in Nat /\ cs \in Nat /\ Sn \in Nat /\ Se \in Nat /\ t \in Int
  BY <1>1, <1>2, <1>3
<1>5. Sn = Se + 2 * cs
  <2>1. n = e + 2 * c
    OBVIOUS
  <2> HIDE DEF e
  <2>2. S * (e + 2 * c) = S * e + 2 * (c * S)
    BY <1>1, <1>3
  <2> QED BY <2>1, <2>2
<1>6. Sn + n <= 2 * gn
  <2>1. (S + 1) * n <= (2 * g) * n
    BY <1>1, <1>2, TimesUp
  <2>2. (S + 1) * n = Sn + n /\ (2 * g) * n = 2 * gn
    BY <1>1, <1>2
  <2> QED BY <2>1, <2>2
<1>7. 2 * t = 2 * gn - 2 * cs
  BY <1>4
<1> HIDE DEF t, gn, cs, Sn, Se
<1>8. Se + n <= 2 * t /\ t > 0 /\ t \in Nat
  BY <1>4, <1>5, <1>6, <1>7
\* Four times the left side is more than the square of Se, with a ZDen.
<1> DEFINE u == Se + n
           uu == u * u
           tt == t * t
           ee == e * e
           SS == S * S
<1>9. u \in Nat /\ u > 0 /\ uu \in Nat /\ tt \in Nat /\ ee \in Nat /\ SS \in Nat
  BY <1>1, <1>3, <1>4, <1>8
<1>10. uu <= 4 * tt
  <2> DEFINE ut == u * t
  <2>1. u * u <= (2 * t) * u
    BY <1>8, <1>9, TimesUp
  <2>2. u * t <= (2 * t) * t
    BY <1>8, <1>9, TimesUp
  <2> HIDE DEF u
  <2>3. (2 * t) * u = 2 * ut /\ (2 * t) * t = 2 * tt /\ ut \in Nat
    BY <1>8, <1>9
  <2>4. uu <= 2 * ut /\ ut <= 2 * tt
    BY <2>1, <2>2, <2>3
  <2> HIDE DEF ut, uu, tt
  <2> QED BY <1>9, <2>3, <2>4
<1>11. SS * ee + 1 <= uu
  <2>1. uu = Se * Se + 2 * (Se * n) + n * n
    BY <1>4
  <2>2. Se * Se = SS * ee
    BY <1>1, <1>3 DEF Se
  <2>3. Se * n \in Nat /\ n * n \in Nat /\ n * n > 0 /\ Se * Se \in Nat
    BY <1>4
  <2> HIDE DEF uu, SS, ee
  <2> QED BY <1>9, <2>1, <2>2, <2>3
<1> DEFINE h == g * (S - g)
           zn == ZNum * n
           L == ZDen * tt
           P == SS * ee
<1>12. 4 * h <= SS /\ h \in Nat
  <2> DEFINE x == S - 2 * g
  <2>1. x * x = SS - 4 * h /\ x * x >= 0 /\ h \in Nat
    BY <1>1, <1>2
  <2> HIDE DEF h, SS, x
  <2> QED BY <1>9, <2>1
<1>13. zn \in Nat /\ zn <= ZDen * ee /\ ZDen * ee \in Nat
  BY <1>1, <1>3
<1>14. P \in Nat /\ ZDen * P \in Nat /\ L \in Nat /\ zn * h \in Nat
  <2> HIDE DEF SS, ee, h, zn, tt
  <2>1. P \in Nat
    BY <1>9
  <2> HIDE DEF P
  <2> QED BY <1>1, <1>9, <1>12, <1>13, <2>1
<1>15. 4 * (zn * h) <= ZDen * P
  <2>1. zn * (4 * h) <= (ZDen * ee) * (4 * h)
    <3> HIDE DEF zn, h, ee
    <3> QED BY <1>1, <1>9, <1>12, <1>13, TimesUp
  <2>2. (4 * h) * (ZDen * ee) <= SS * (ZDen * ee)
    <3> HIDE DEF zn, h, ee, SS
    <3> QED BY <1>1, <1>9, <1>12, <1>13, TimesUp
  <2> HIDE DEF zn, h, ee, SS, P
  <2>3. zn * (4 * h) = 4 * (zn * h) /\ (ZDen * ee) * (4 * h) = (4 * h) * (ZDen * ee) /\ (4 * h) * (ZDen * ee) \in Nat
    BY <1>1, <1>9, <1>12, <1>13
  <2>4. SS * (ZDen * ee) = ZDen * P
    BY <1>1, <1>9 DEF P
  <2> QED BY <1>14, <2>1, <2>2, <2>3, <2>4
<1>16. ZDen * P + ZDen <= 4 * L
  <2>1. P + 1 <= 4 * tt
    <3> HIDE DEF P, tt, uu
    <3> QED BY <1>9, <1>10, <1>11, <1>14 DEF P
  <2>2. (P + 1) * ZDen <= (4 * tt) * ZDen
    <3> HIDE DEF P, tt
    <3> QED BY <1>1, <1>9, <1>14, <2>1, TimesUp
  <2> HIDE DEF P, tt
  <2>3. (P + 1) * ZDen = ZDen * P + ZDen /\ (4 * tt) * ZDen = 4 * (ZDen * tt)
    BY <1>1, <1>9, <1>14
  <2> QED BY <2>2, <2>3
<1>17. zn * h < L
  <2> HIDE DEF zn, h, L, P
  <2> QED BY <1>1, <1>14, <1>15, <1>16
<1>18. ZDen * t * t = L /\ ZNum * n * g * (S - g) = zn * h
  <2>1. ZDen * t * t = L
    BY <1>1, <1>8
  <2>2. ZNum * n * g * (S - g) = zn * h
    <3> DEFINE y == S - g
    <3>1. y \in Nat
      BY <1>1, <1>2
    <3> HIDE DEF y
    <3>2. zn * g * y = zn * (g * y)
      BY <1>2, <1>13, <3>1
    <3> QED BY <3>2 DEF y
  <2> QED BY <2>1, <2>2
<1>19. Beyond(g, c, n)
  <2>1. g * n > c * Scale
    BY <1>4, <1>7, <1>8 DEF gn, cs
  <2>2. ZDen * (g * n - c * Scale) * (g * n - c * Scale) > ZNum * n * g * (Scale - g)
    BY <1>14, <1>17, <1>18 DEF t
  <2> QED BY <2>1, <2>2 DEF Beyond
<1>20. High(c, n) <= g /\ High(c, n) \in 0..S
  <2>1. g \in 0..Scale
    BY <1>1, <1>2
  <2>2. Figures
    BY DEF Thresholds
  <2> QED BY <1>19, <2>1, <2>2, HighOf
<1> QED BY <1>1, <1>2, <1>20

LEMMA AdmittedHave ==
  ASSUME Thresholds, NEW Models, NEW N, NEW h, CrawlsIn(Models, N, h)
  PROVE  \E K, M : /\ CrawlsIn(Models, M, Usable(h)) /\ CrawlsIn(Models, K, Admitted(h)) /\ (K > 0 => M > 0)
                   /\ \A i \in 1..K : Admitted(h)[i].ok > 0
<1> DEFINE Y == Full(h)
           M == Cardinality(Y)
           K == Least(Window, M)
           u == Usable(h)
           a == Admitted(h)
<1>1. Usable(h) = Entries(h, Y) /\ Y \in SUBSET (1..N)
  BY UsableIs
<1>2. \A i \in Y : h[i].ok >= MinOk
  BY DEF Full
<1> HIDE DEF Y
<1>3. EntriesIn(Models, h, Y)
  BY <1>1, EntriesTyped DEF PlacesIn
<1>4. CrawlsIn(Models, M, u) /\ \A n \in 1..M : u[n].ok >= MinOk
  <2>1. CrawlsIn(Models, M, u) /\ \A n \in 1..M : InTurn(Y)[n] \in Y /\ u[n] = h[InTurn(Y)[n]]
    BY <1>1, <1>3 DEF EntriesIn
  <2> QED BY <1>2, <2>1
<1> HIDE DEF u, M
<1>5. M \in Nat /\ Window \in Nat /\ MinOk \in Nat /\ MinOk > 0
  BY <1>4 DEF CrawlsIn, Thresholds
<1>6. CrawlsIn(Models, K, Prefix(u, Window)) /\ Prefix(u, Window) = [i \in 1..K |-> u[i]]
  BY <1>4, <1>5, PrefixOf
<1>7. a = Prefix(u, Window)
  BY DEF Admitted, u
<1>8. K \in 0..M
  BY <1>5 DEF Least
<1> HIDE DEF K, a
<1>9. \A x \in Crawl(Models) : x.ok \in Nat
  BY DEF Crawl
<1>10. \A i \in 1..K : i \in 1..M /\ a[i] = u[i]
  BY <1>5, <1>6, <1>7, <1>8
<1>11. \A i \in 1..M : u[i].ok > 0
  BY <1>4, <1>5, <1>9 DEF CrawlsIn
<1>12. CrawlsIn(Models, K, a) /\ (K > 0 => M > 0) /\ \A i \in 1..K : a[i].ok > 0
  BY <1>5, <1>6, <1>7, <1>8, <1>10, <1>11
<1> QED BY <1>4, <1>12 DEF u, a

LEMMA StreakPositive ==
  ASSUME NEW Models, NEW N, NEW u, CrawlsIn(Models, N, u), N > 0
  PROVE  Streak(u) > 0
<1>1. N \in Nat /\ Len(u) = N /\ DOMAIN u = 1..N
  <2> DEFINE V == Crawl(Models)
  <2>1. N \in Nat /\ u \in [1..N -> V]
    BY DEF CrawlsIn
  <2> HIDE DEF V
  <2> QED BY <2>1
<1> DEFINE B == {N} \cup {i - 1 : i \in {j \in 1..N : u[j].won # u[1].won}}
<1>2. B \in SUBSET Nat /\ B # {} /\ \A x \in B : x > 0
  <2>1. \A j \in 1..N : u[j].won # u[1].won => j - 1 > 0 /\ j - 1 \in Nat
    BY <1>1
  <2> QED BY <1>1, <2>1
<1>3. Streak(u) = Min(B)
  BY <1>1 DEF Streak
<1> HIDE DEF B
<1>4. PICK x \in B : \A y \in B : x <= y
  BY <1>2, LeastOf
<1>5. Min(B) \in B
  <2>1. Min(B) = CHOOSE h \in B : \A y \in B : h <= y
    BY DEF Min
  <2> QED BY <1>4, <2>1
<1> QED BY <1>2, <1>3, <1>5

\* A verdict that stands has the band of its rate on one side of a half.
LEMMA StableBand ==
  ASSUME Thresholds, NEW c \in Nat, NEW n \in Nat, n > 0, c <= n, ~ Straddles(c, n)
  PROVE  2 * Low(c, n) >= Scale - 2 \/ 2 * High(c, n) <= Scale + 2
<1>1. Figures /\ ZDen \in Nat /\ Scale \in Nat
  BY DEF Thresholds, Figures
<1>2. CASE 2 * c <= n
  BY <1>2, BandBelow
<1>3. CASE ~ (2 * c <= n)
  <2> DEFINE d == n - c
  <2>1. d \in Nat /\ 2 * d <= n
    BY <1>3
  <2>2. ~ Straddles(d, n)
    BY <1>1, StraddlesMirror
  <2>3. Low(c, n) = Scale - High(d, n)
    BY DEF Low
  <2> HIDE DEF d
  <2>4. 2 * High(d, n) <= Scale + 2 /\ High(d, n) \in 0..Scale
    BY <1>1, <2>1, <2>2, BandBelow, HighOf
  <2> QED BY <1>1, <2>3, <2>4
<1> QED BY <1>2, <1>3

\* The five ways a history is classified.
LEMMA ClassifyIs ==
  ASSUME Thresholds, NEW Models, NEW N, NEW h, CrawlsIn(Models, N, h)
  PROVE  LET a == Admitted(h) v == Classify(h) IN
         /\ h = <<>> => v.state = "unknown" /\ v.score = 0
         /\ h # <<>> /\ a = <<>> /\ Failing(h) => v.state = "failing" /\ v.score = 0
         /\ h # <<>> /\ a = <<>> /\ ~ Failing(h) => v.state = "unknown" /\ v.score = 0
         /\ h # <<>> /\ a # <<>> /\ (a[1].age > MaxAge \/ Len(a) < MinCrawls) => v.state = "unknown" /\ v.score = 0
         /\ h # <<>> /\ a # <<>> /\ a[1].age <= MaxAge /\ Len(a) >= MinCrawls =>
              /\ v.state = Judged(a) /\ v.streak = Streak(Usable(h))
              /\ v.score = Scale - CoinFlip(Rate(CitedAnswers(a), Answers(a)))
<1> DEFINE a == Admitted(h)
           v == Classify(h)
           f == Failing(h)
           old == a[1].age > MaxAge
           few == Len(a) < MinCrawls
           V == Crawl(Models)
<1>1. PICK K, M : CrawlsIn(Models, M, Usable(h)) /\ CrawlsIn(Models, K, a)
  BY AdmittedHave
<1> HIDE DEF a
<1>2. K \in Nat /\ a \in [1..K -> V]
  BY <1>1 DEF CrawlsIn
<1>3. \A x \in V : x.age \in Int
  BY DEF Crawl
<1> HIDE DEF V
<1>4. (a = <<>> <=> K = 0) /\ Len(a) = K
  BY <1>2
<1>5. a # <<>> => (a[1].age <= MaxAge <=> ~ old) /\ (Len(a) >= MinCrawls <=> ~ few)
  <2> SUFFICES ASSUME a # <<>> PROVE (a[1].age <= MaxAge <=> ~ old) /\ (Len(a) >= MinCrawls <=> ~ few)
    OBVIOUS
  <2>1. a[1] \in V
    BY <1>2, <1>4
  <2> QED BY <1>2, <1>3, <1>4, <2>1 DEF Thresholds
<1>6. h = <<>> => a = <<>>
  <2> SUFFICES ASSUME h = <<>> PROVE a = <<>>
    OBVIOUS
  <2>1. DOMAIN h = {}
    OBVIOUS
  <2>2. Full(h) = {} /\ Usable(h) = Entries(h, Full(h))
    BY <2>1, UsableIs DEF Full, Same
  <2>3. EntriesIn(Models, h, {})
    BY EntriesTyped DEF PlacesIn
  <2>4. CrawlsIn(Models, 0, Usable(h))
    BY <2>2, <2>3, FS_EmptySet DEF EntriesIn
  <2> DEFINE z == 0
             u == Usable(h)
  <2>5. CrawlsIn(Models, z, u) /\ Window \in Nat /\ Least(Window, z) = 0
    BY <2>4 DEF Least, Thresholds
  <2> HIDE DEF z, u
  <2>6. Len(Prefix(u, Window)) = Least(Window, z)
    BY <2>5, PrefixOf
  <2>7. Len(a) = 0
    BY <2>5, <2>6 DEF a, Admitted, u
  <2> QED BY <1>2, <1>4, <2>7
<1> DEFINE score == Scale - CoinFlip(Rate(CitedAnswers(a), Answers(a)))
           n0 == Len(Prefix(Comparable(h), Window))
<1>7. v = CASE h = <<>> -> Verdict("unknown", 0, 0, 0)
            [] h # <<>> /\ a = <<>> /\ f -> Verdict("failing", n0, 0, 0)
            [] h # <<>> /\ a = <<>> /\ ~ f -> Verdict("unknown", 0, 0, 0)
            [] a # <<>> /\ (old \/ few) -> Verdict("unknown", Len(a), 0, 0)
            [] a # <<>> /\ a[1].age <= MaxAge /\ Len(a) >= MinCrawls ->
                 Verdict(Judged(a), Len(a), Streak(Usable(h)), score)
  BY Zenon DEF Classify, a
<1> HIDE DEF v, f, n0, score, old, few
<1>8. /\ h = <<>> => v = Verdict("unknown", 0, 0, 0)
      /\ h # <<>> /\ a = <<>> /\ f => v = Verdict("failing", n0, 0, 0)
      /\ h # <<>> /\ a = <<>> /\ ~ f => v = Verdict("unknown", 0, 0, 0)
      /\ h # <<>> /\ a # <<>> /\ (old \/ few) => v = Verdict("unknown", Len(a), 0, 0)
      /\ h # <<>> /\ a # <<>> /\ ~ old /\ ~ few => v = Verdict(Judged(a), Len(a), Streak(Usable(h)), score)
  BY <1>5, <1>6, <1>7
<1>9. \A s, k, t, z : Verdict(s, k, t, z).state = s /\ Verdict(s, k, t, z).streak = t /\ Verdict(s, k, t, z).score = z
  BY DEF Verdict
<1>10. /\ h = <<>> => v.state = "unknown" /\ v.score = 0
       /\ h # <<>> /\ a = <<>> /\ f => v.state = "failing" /\ v.score = 0
       /\ h # <<>> /\ a = <<>> /\ ~ f => v.state = "unknown" /\ v.score = 0
       /\ h # <<>> /\ a # <<>> /\ (old \/ few) => v.state = "unknown" /\ v.score = 0
       /\ h # <<>> /\ a # <<>> /\ a[1].age <= MaxAge /\ Len(a) >= MinCrawls =>
            v.state = Judged(a) /\ v.streak = Streak(Usable(h)) /\ v.score = score
  BY <1>5, <1>8, <1>9
<1> QED BY <1>10 DEF v, a, f, old, few, score

LEMMA FailingMirrors ==
  ASSUME Window \in Nat, NEW Models, NEW h, NEW g, NEW K, Flipped(Models, K, Comparable(h), Comparable(g))
  PROVE  Failing(g) <=> Failing(h)
<1> DEFINE x == Comparable(h)
           y == Comparable(g)
           m == Least(Window, K)
<1>1. Flipped(Models, K, x, y)
  OBVIOUS
<1>2. CrawlsIn(Models, K, x) /\ CrawlsIn(Models, K, y) /\ K \in Nat /\ \A i \in 1..K : y[i].ok = x[i].ok
  BY <1>1 DEF Flipped, CrawlsIn
<1> HIDE DEF x, y
<1>3. m \in 0..K
  BY <1>2 DEF Least
<1>4. Len(Prefix(x, Window)) = m /\ Prefix(x, Window) = [i \in 1..m |-> x[i]]
  BY <1>2, PrefixOf
<1>5. Len(Prefix(y, Window)) = m /\ Prefix(y, Window) = [i \in 1..m |-> y[i]]
  BY <1>2, PrefixOf
<1> HIDE DEF m
<1>6. DOMAIN Prefix(x, Window) = 1..m /\ DOMAIN Prefix(y, Window) = 1..m
  BY <1>4, <1>5
<1>7. \A i \in 1..m : y[i].ok = x[i].ok
  BY <1>2, <1>3
<1> QED BY <1>4, <1>5, <1>6, <1>7, Zenon DEF Failing, x, y

\* stability.py: for histories of any length and any window, age and z: a verdict is of
\* the newest crawls of the newest model, the same for never cited as for always
\* cited, stable only with the whole band on one side of a half.
THEOREM VerdictAlwaysSettled ==
  ASSUME Thresholds, NEW Models, NEW h, CrawlsIn(Models, Len(h), h)
  PROVE  VerdictSettled(h)
<1> DEFINE N == Len(h)
           g == Mirror(h)
           a == Admitted(h)
           b == Admitted(g)
           v == Classify(h)
           w == Classify(g)
<1>1. CrawlsIn(Models, N, h) /\ N \in Nat /\ DOMAIN h = 1..N /\ Window \in Nat /\ Figures /\ MinCrawls \in Nat /\ MaxAge \in Int
  BY DEF CrawlsIn, Thresholds
<1> HIDE DEF N
<1>2. \A older \in DOMAIN h : Len(Admitted(Prefix(h, older))) = Window => Judged(Admitted(Prefix(h, older))) = Judged(Admitted(h))
  <2> SUFFICES ASSUME NEW older \in 1..N, Len(Admitted(Prefix(h, older))) = Window
               PROVE  Judged(Admitted(Prefix(h, older))) = Judged(Admitted(h))
    BY <1>1
  <2>1. Admitted(Prefix(h, older)) = Admitted(h)
    BY <1>1, OlderAdmitsTheSame
  <2> QED BY <2>1
<1>3. h # <<>> => Classify(Comparable(h)) = v
  BY <1>1, ComparableAgrees
<1>4. Flipped(Models, N, h, g)
  BY <1>1, MirrorFlips
<1>5. CrawlsIn(Models, N, g) /\ (h = <<>> <=> g = <<>>)
  BY <1>4, FlippedAlike DEF Flipped
<1>6. PICK K : Flipped(Models, K, Comparable(h), Comparable(g))
  BY <1>1, MirrorKept
<1>7. PICK M : Flipped(Models, M, Usable(h), Usable(g))
  BY <1>1, MirrorKept
<1>8. PICK A : Flipped(Models, A, a, b)
  BY <1>1, MirrorKept
<1>9. Failing(g) <=> Failing(h)
  BY <1>1, <1>6, FailingMirrors
<1> HIDE DEF g, a, b
<1>10. /\ A \in Nat /\ Len(a) = A /\ Len(b) = A /\ (a = <<>> <=> A = 0) /\ (b = <<>> <=> A = 0)
       /\ Flips(b) = Flips(a) /\ (A > 0 => b[1].age = a[1].age)
  BY <1>8, FlippedAlike
<1>11. PICK A0, M0 : CrawlsIn(Models, M0, Usable(h)) /\ CrawlsIn(Models, A0, a) /\ (A0 > 0 => M0 > 0) /\ \A i \in 1..A0 : a[i].ok > 0
  BY <1>1, AdmittedHave DEF a
<1>12. A0 = A
  <2> DEFINE V == Crawl(Models)
  <2>1. A0 \in Nat /\ a \in [1..A0 -> V]
    BY <1>11 DEF CrawlsIn
  <2> HIDE DEF V
  <2>2. Len(a) = A0
    BY <2>1
  <2> QED BY <1>10, <2>2
<1> DEFINE c == CitedAnswers(a)
           n == Answers(a)
<1>13. A > 0 => n \in Nat /\ n > 0 /\ c \in Nat /\ c <= n /\ Answers(b) = n /\ CitedAnswers(b) = n - c
  <2> SUFFICES ASSUME A > 0 PROVE n \in Nat /\ n > 0 /\ c \in Nat /\ c <= n /\ Answers(b) = n /\ CitedAnswers(b) = n - c
    OBVIOUS
  <2>1. CrawlsIn(Models, A, a) /\ \A i \in 1..A : a[i].ok > 0
    BY <1>11, <1>12
  <2>2. Answers(a) \in Nat /\ Answers(a) > 0 /\ CitedAnswers(a) \in Nat /\ CitedAnswers(a) <= Answers(a)
    BY <2>1, AnswersOf
  <2>3. Answers(b) = Answers(a) /\ CitedAnswers(b) = Answers(a) - CitedAnswers(a)
    BY <1>8, <2>1, FlippedAnswers
  <2> QED BY <2>2, <2>3
<1> HIDE DEF c, n
<1>14. A > 0 => Judged(b) = Judged(a)
  <2> SUFFICES ASSUME A > 0 PROVE Judged(b) = Judged(a)
    OBVIOUS
  <2>1. Straddles(n - c, n) <=> Straddles(c, n)
    BY <1>1, <1>13, StraddlesMirror DEF Figures
  <2> QED BY <1>10, <1>13, <2>1, Zenon DEF Judged, c, n
<1> DEFINE F == Failing(h)
           old == a[1].age > MaxAge \/ Len(a) < MinCrawls
           new == a[1].age <= MaxAge /\ Len(a) >= MinCrawls
<1>15. A > 0 => (new <=> ~ old)
  <2> SUFFICES ASSUME A > 0 PROVE new <=> ~ old
    OBVIOUS
  <2>1. a[1] \in Crawl(Models)
    BY <1>10, <1>11, <1>12 DEF CrawlsIn
  <2>2. a[1].age \in Int
    BY <2>1 DEF Crawl
  <2> QED BY <1>1, <1>10, <2>2
<1>16. /\ h = <<>> => v.state = "unknown" /\ v.score = 0
       /\ h # <<>> /\ a = <<>> /\ F => v.state = "failing" /\ v.score = 0
       /\ h # <<>> /\ a = <<>> /\ ~ F => v.state = "unknown" /\ v.score = 0
       /\ h # <<>> /\ a # <<>> /\ old => v.state = "unknown" /\ v.score = 0
       /\ h # <<>> /\ a # <<>> /\ new => v.state = Judged(a) /\ v.streak = Streak(Usable(h)) /\ v.score = Scale - CoinFlip(Rate(c, n))
  BY <1>1, ClassifyIs DEF a, c, n
<1>17. /\ g = <<>> => w.state = "unknown" /\ w.score = 0
       /\ g # <<>> /\ b = <<>> /\ Failing(g) => w.state = "failing" /\ w.score = 0
       /\ g # <<>> /\ b = <<>> /\ ~ Failing(g) => w.state = "unknown" /\ w.score = 0
       /\ g # <<>> /\ b # <<>> /\ (b[1].age > MaxAge \/ Len(b) < MinCrawls) => w.state = "unknown" /\ w.score = 0
       /\ g # <<>> /\ b # <<>> /\ b[1].age <= MaxAge /\ Len(b) >= MinCrawls =>
            w.state = Judged(b) /\ w.score = Scale - CoinFlip(Rate(CitedAnswers(b), Answers(b)))
  BY <1>5, ClassifyIs DEF b
<1>18. /\ h = <<>> => w.state = "unknown" /\ w.score = 0
       /\ h # <<>> /\ a = <<>> /\ F => w.state = "failing" /\ w.score = 0
       /\ h # <<>> /\ a = <<>> /\ ~ F => w.state = "unknown" /\ w.score = 0
       /\ h # <<>> /\ a # <<>> /\ old => w.state = "unknown" /\ w.score = 0
       /\ h # <<>> /\ a # <<>> /\ new => w.state = Judged(a) /\ w.score = Scale - CoinFlip(Rate(n - c, n))
  <2>1. a # <<>> => A > 0 /\ b # <<>> /\ b[1].age = a[1].age /\ Len(b) = Len(a)
    BY <1>10
  <2>2. a = <<>> => b = <<>>
    BY <1>10
  <2> HIDE DEF v, w
  <2> QED BY <1>5, <1>9, <1>13, <1>14, <1>17, <2>1, <2>2
<1> HIDE DEF v, w, F, old, new
<1>19. w.state = v.state
  BY <1>10, <1>15, <1>16, <1>18
<1>20. w.score - v.score \in -2..2
  <2>1. CASE h # <<>> /\ a # <<>> /\ new
    <3>1. A > 0
      BY <1>10, <2>1
    <3>2. CoinFlip(Rate(n - c, n)) - CoinFlip(Rate(c, n)) \in -2..2 /\ CoinFlip(Rate(c, n)) \in Int /\ CoinFlip(Rate(n - c, n)) \in Int
      BY <1>1, <1>13, <3>1, CoinMirrors
    <3> DEFINE p == CoinFlip(Rate(n - c, n))
               q == CoinFlip(Rate(c, n))
    <3>3. p \in Int /\ q \in Int /\ p - q \in -2..2 /\ w.score = Scale - p /\ v.score = Scale - q /\ Scale \in Nat
      BY <1>1, <1>16, <1>18, <2>1, <3>2 DEF Figures
    <3> HIDE DEF p, q
    <3> QED BY <3>3
  <2>2. CASE ~ (h # <<>> /\ a # <<>> /\ new)
    <3>1. v.score = 0 /\ w.score = 0
      BY <1>10, <1>15, <1>16, <1>18, <2>2
    <3> QED BY <3>1
  <2> QED BY <2>1, <2>2
<1>21. v.state = "stable" => (2 * Low(c, n) >= Scale - 2 \/ 2 * High(c, n) <= Scale + 2) /\ v.streak > 0
  <2> SUFFICES ASSUME v.state = "stable" PROVE (2 * Low(c, n) >= Scale - 2 \/ 2 * High(c, n) <= Scale + 2) /\ v.streak > 0
    OBVIOUS
  <2>1. h # <<>> /\ a # <<>> /\ new /\ A > 0 /\ Judged(a) = "stable"
    BY <1>10, <1>15, <1>16
  <2>2. ~ Straddles(c, n)
    BY <2>1 DEF Judged, c, n
  <2>3. 2 * Low(c, n) >= Scale - 2 \/ 2 * High(c, n) <= Scale + 2
    BY <1>13, <2>1, <2>2, StableBand
  <2>4. v.streak > 0
    <3>1. M0 > 0
      BY <1>11, <1>12, <2>1
    <3>2. Streak(Usable(h)) > 0
      BY <1>11, <3>1, StreakPositive
    <3> QED BY <1>16, <2>1, <3>2
  <2> QED BY <2>3, <2>4
<1>22. v.state = "failing" => \A i \in DOMAIN Prefix(Comparable(h), Window) : Comparable(h)[i].ok = 0
  <2> SUFFICES ASSUME v.state = "failing" PROVE \A i \in DOMAIN Prefix(Comparable(h), Window) : Comparable(h)[i].ok = 0
    OBVIOUS
  <2>1. Judged(a) # "failing"
    BY DEF Judged
  <2>2. F
    BY <1>10, <1>15, <1>16, <2>1
  <2> QED BY <2>2 DEF F, Failing
<1> QED BY <1>2, <1>3, <1>19, <1>20, <1>21, <1>22 DEF VerdictSettled, a, b, g, v, w, c, n

-----------------------------------------------------------------------------
(* What a dashboard's shares add up to. *)

\* Pairs, counted by their first parts.
CardsOf(D, A, f) == f = [x \in D |-> Cardinality(A[x])]
PairsOf(D, A, Q) == \A q : q \in Q <=> \E x \in D : \E n \in A[x] : q = <<x, n>>
LEMMA CountsPairs ==
  ASSUME NEW D, IsFiniteSet(D), NEW A, \A x \in D : IsFiniteSet(A[x]), NEW f, CardsOf(D, A, f), NEW Q, PairsOf(D, A, Q)
  PROVE  IsFiniteSet(Q) /\ Cardinality(Q) = SumFunctionOnSet(f, D)
<1> DEFINE Of(r) == {q \in Q : q[1] \in r}
           P == {r \in SUBSET D : IsFiniteSet(Of(r)) /\ Cardinality(Of(r)) = SumFunctionOnSet(f, r)}
<1>1. f \in [D -> Int] /\ \A x \in D : f[x] = Cardinality(A[x]) /\ f[x] \in Nat
  <2>1. \A x \in D : Cardinality(A[x]) \in Nat
    BY FS_CardinalityType
  <2> QED BY <2>1 DEF CardsOf
<1>2. AddsUp(D, f)
  BY <1>1, SumsAddUp
<1>3. {} \in P
  <2>1. Of({}) = {}
    OBVIOUS
  <2>2. SumFunctionOnSet(f, {}) = 0
    BY SumEmpty
  <2> HIDE DEF Of
  <2> QED BY <2>1, <2>2, FS_EmptySet
<1>4. ASSUME NEW r \in P, NEW x \in D \ r PROVE r \cup {x} \in P
  <2> DEFINE B == {x} \X A[x]
             O == Of(r)
             O1 == Of(r \cup {x})
  <2>1. O1 = O \cup B /\ O \cap B = {}
    <3>1. \A q : q \in Q <=> \E y \in D : \E n \in A[y] : q = <<y, n>>
      BY DEF PairsOf
    <3>2. \A q : q \in B <=> \E n \in A[x] : q = <<x, n>>
      OBVIOUS
    <3>3. \A q \in B : q[1] = x /\ q \in Q
      BY <3>1, <3>2
    <3>4. \A q \in Q : q[1] = x => q \in B
      BY <3>1, <3>2
    <3>5. x \notin r
      OBVIOUS
    <3> HIDE DEF B
    <3> QED BY <3>3, <3>4, <3>5
  <2>2. IsFiniteSet(B) /\ Cardinality(B) = f[x]
    <3>1. IsFiniteSet({x}) /\ Cardinality({x}) = 1 /\ IsFiniteSet(A[x])
      BY FS_Singleton
    <3>2. IsFiniteSet(B) /\ Cardinality(B) = Cardinality({x}) * Cardinality(A[x])
      BY <3>1, FS_Product
    <3> QED BY <1>1, <3>1, <3>2
  <2>3. IsFiniteSet(O) /\ Cardinality(O) = SumFunctionOnSet(f, r) /\ Cardinality(O) \in Nat
    <3>1. IsFiniteSet(O) /\ Cardinality(O) = SumFunctionOnSet(f, r)
      OBVIOUS
    <3> QED BY <3>1, FS_CardinalityType
  <2> HIDE DEF O, O1, B
  <2>4. IsFiniteSet(O1) /\ Cardinality(O1) = Cardinality(O) + f[x]
    <3>1. IsFiniteSet(O1) /\ Cardinality(O1) = Cardinality(O) + Cardinality(B) - Cardinality(O \cap B)
      BY <2>1, <2>2, <2>3, FS_Union
    <3>2. Cardinality(O \cap B) = 0
      BY <2>1, FS_EmptySet
    <3> QED BY <1>1, <2>2, <2>3, <3>1, <3>2
  <2>5. SumFunctionOnSet(f, r \cup {x}) = SumFunctionOnSet(f, r) + f[x]
    BY <1>2 DEF AddsUp
  <2> QED BY <2>3, <2>4, <2>5 DEF O1
<1>5. D \in P
  <2> HIDE DEF P
  <2>1. P \in SUBSET (SUBSET D)
    BY DEF P
  <2> QED BY <1>3, <1>4, <2>1, SubsetInduction
<1>6. Of(D) = Q
  BY DEF PairsOf
<1> HIDE DEF Of
<1> QED BY <1>5, <1>6

LEMMA SumUnder ==
  ASSUME NEW S, IsFiniteSet(S), NEW f \in [S -> Int], NEW g \in [S -> Int], Under(S, f, g)
  PROVE  SumFunctionOnSet(f, S) <= SumFunctionOnSet(g, S)
<1> DEFINE h == [x \in S |-> g[x] - f[x]]
<1>1. h \in [S -> Int] /\ \A x \in S : h[x] \in Nat /\ g[x] = f[x] + h[x]
  BY DEF Under
<1> HIDE DEF h
<1>2. SumFunctionOnSet(g, S) = SumFunctionOnSet(f, S) + SumFunctionOnSet(h, S)
  BY <1>1, SumPlus
<1>3. SumFunctionOnSet(h, S) \in Nat /\ SumFunctionOnSet(f, S) \in Int
  BY <1>1, SumNat, SumTyped
<1> QED BY <1>2, <1>3

LEMMA RateWithin ==
  ASSUME Figures, NEW c \in Nat, NEW n \in Nat, c <= n
  PROVE  Rate(c, n) \in 0..Scale
<1>1. CASE n = 0
  BY <1>1 DEF Rate, Figures
<1>2. CASE n > 0
  <2> DEFINE r == Rate(c, n)
             cs == c * Scale
  <2>1. r \in Nat /\ 2 * (r * n) <= 2 * cs + n /\ Scale \in Nat
    BY <1>2, RateIs DEF Figures
  <2>2. cs <= Scale * n /\ cs \in Nat
    <3>1. c * Scale <= n * Scale /\ n * Scale = Scale * n
      BY <2>1, TimesUp
    <3> QED BY <2>1, <3>1
  <2> HIDE DEF r, cs
  <2>3. r <= Scale
    <3> SUFFICES ASSUME Scale + 1 <= r PROVE FALSE
      BY <2>1
    <3>1. (Scale + 1) * n <= r * n
      BY <2>1, TimesUp
    <3>2. (Scale + 1) * n = Scale * n + n /\ Scale * n \in Nat /\ r * n \in Nat
      BY <2>1
    <3> QED BY <1>2, <2>1, <2>2, <3>1, <3>2
  <2> QED BY <2>1, <2>3 DEF r
<1> QED BY <1>1, <1>2

\* Rounded, the shares of the parts are off the whole by half a digit each.
RatesOf(S, c, N, r) == r = [x \in S |-> Rate(c[x], N)]
LEMMA RoundedParts ==
  ASSUME Figures, NEW S, IsFiniteSet(S), NEW c \in [S -> Nat], NEW N \in Nat, N > 0, N = SumFunctionOnSet(c, S), NEW r, RatesOf(S, c, N, r)
  PROVE  LET off == 2 * (SumFunctionOnSet(r, S) - Scale) IN 0 - Cardinality(S) <= off /\ off <= Cardinality(S)
<1> DEFINE k == 2 * Scale
           n2 == 2 * N
           low == [x \in S |-> k * c[x]]
           mid == [x \in S |-> n2 * r[x]]
           one == [x \in S |-> 1]
           ns == [x \in S |-> N]
           high == [x \in S |-> low[x] + N]
           more == [x \in S |-> mid[x] + N]
           C == Cardinality(S)
           R == SumFunctionOnSet(r, S)
<1>1. Scale \in Nat /\ k \in Nat /\ n2 \in Nat /\ n2 > 0 /\ C \in Nat
  BY FS_CardinalityType DEF Figures
<1>2. \A x \in S : r[x] = Rate(c[x], N) /\ r[x] \in Nat /\ c[x] \in Nat
        /\ 2 * (r[x] * N) <= 2 * (c[x] * Scale) + N /\ 2 * (c[x] * Scale) + N < 2 * (r[x] * N) + 2 * N
  BY RateIs DEF RatesOf
<1>3. r \in [S -> Int] /\ c \in [S -> Int]
  BY <1>2 DEF RatesOf
<1>4. \A x \in S : k * c[x] = 2 * (c[x] * Scale) /\ n2 * r[x] = 2 * (r[x] * N) /\ c[x] * Scale \in Nat /\ r[x] * N \in Nat
  BY <1>1, <1>2
<1>5. low \in [S -> Int] /\ mid \in [S -> Int] /\ high \in [S -> Int] /\ more \in [S -> Int] /\ ns \in [S -> Int] /\ one \in [S -> Int]
  BY <1>1, <1>2, <1>4
<1>6. \A x \in S : low[x] = k * c[x] /\ mid[x] = n2 * r[x] /\ high[x] = low[x] + ns[x] /\ more[x] = mid[x] + ns[x] /\ ns[x] = N * one[x] /\ one[x] = 1
  OBVIOUS
<1>7. Under(S, mid, high) /\ Under(S, low, more)
  <2>1. \A x \in S : mid[x] <= high[x] /\ low[x] <= more[x]
    <3> SUFFICES ASSUME NEW x \in S PROVE mid[x] <= high[x] /\ low[x] <= more[x]
      OBVIOUS
    <3> DEFINE a == c[x] * Scale
               b == r[x] * N
    <3>1. a \in Nat /\ b \in Nat /\ 2 * b <= 2 * a + N /\ 2 * a + N < 2 * b + 2 * N
      BY <1>2, <1>4
    <3>2. low[x] = 2 * a /\ mid[x] = 2 * b /\ high[x] = 2 * a + N /\ more[x] = 2 * b + N
      BY <1>4
    <3> HIDE DEF a, b, low, mid, high, more
    <3> QED BY <3>1, <3>2
  <2> HIDE DEF low, mid, high, more
  <2> QED BY <2>1 DEF Under
<1> HIDE DEF low, mid, high, more, ns, one, k, n2, C
<1>8. SumFunctionOnSet(low, S) = k * N
  <2>1. Scaled(S, c, k, low)
    BY <1>6 DEF Scaled
  <2> QED BY <1>1, <1>3, <1>5, <2>1, SumTimes
<1>9. SumFunctionOnSet(mid, S) = n2 * R
  <2>1. Scaled(S, r, n2, mid)
    BY <1>6 DEF Scaled
  <2> QED BY <1>1, <1>3, <1>5, <2>1, SumTimes
<1>10. SumFunctionOnSet(ns, S) = N * C
  <2>1. Scaled(S, one, N, ns)
    BY <1>6 DEF Scaled
  <2>2. SumFunctionOnSet(one, S) = C
    BY <1>5, <1>6, SumOnes DEF C
  <2> QED BY <1>5, <2>1, <2>2, SumTimes
<1>11. SumFunctionOnSet(high, S) = SumFunctionOnSet(low, S) + SumFunctionOnSet(ns, S)
  BY <1>5, <1>6, SumPlus
<1>12. SumFunctionOnSet(more, S) = SumFunctionOnSet(mid, S) + SumFunctionOnSet(ns, S)
  BY <1>5, <1>6, SumPlus
<1>13. SumFunctionOnSet(mid, S) <= SumFunctionOnSet(high, S) /\ SumFunctionOnSet(low, S) <= SumFunctionOnSet(more, S)
  BY <1>5, <1>7, SumUnder
<1>14. R \in Int
  BY <1>3, SumTyped
<1> HIDE DEF R
<1>15. n2 * R <= k * N + N * C /\ k * N <= n2 * R + N * C
  BY <1>8, <1>9, <1>10, <1>11, <1>12, <1>13
<1>16. n2 * R = (2 * R) * N /\ k * N + N * C = (k + C) * N /\ n2 * R + N * C = (2 * R + C) * N
  BY <1>1, <1>14 DEF n2
<1>17. 2 * R <= k + C /\ k <= 2 * R + C
  <2>1. (2 * R) * N <= (k + C) * N /\ k * N <= (2 * R + C) * N
    BY <1>15, <1>16
  <2>2. 2 * R \in Int /\ k + C \in Int /\ k \in Int /\ 2 * R + C \in Int
    BY <1>1, <1>14
  <2> QED BY <2>1, <2>2, TimesDown
<1>18. 2 * R <= 2 * Scale + C /\ 2 * Scale <= 2 * R + C
  BY <1>17 DEF k
<1> QED BY <1>1, <1>14, <1>18 DEF R, C

\* Answers that cite pages the project knows, of domains it has classed.
Citing(N, answers) == DOMAIN answers = 1..N /\ \A i \in 1..N : answers[i].links \in Seq(DOMAIN DomainOf)
ClassesOf(K) == K = {ClassOf[d] : d \in DOMAIN ClassOf}

LEMMA DomainsOf ==
  ASSUME NEW s, s.links \in Seq(DOMAIN DomainOf)
  PROVE  /\ DOMAIN s.links = 1..Len(s.links) /\ Len(s.links) \in Nat
         /\ IsFiniteSet(DOMAIN s.links) /\ Cardinality(DOMAIN s.links) = Len(s.links) /\ IsFiniteSet(Domains(s))
<1> DEFINE key == [i \in DOMAIN s.links |-> DomainOf[s.links[i]]]
           D == DOMAIN s.links
<1>1. D = 1..Len(s.links) /\ Len(s.links) \in Nat
  OBVIOUS
<1>2. IsFiniteSet(D) /\ Cardinality(D) = Len(s.links)
  BY <1>1, FS_Interval
<1>3. AllKeys(D, key, Domains(s))
  BY DEF AllKeys, Domains
<1> HIDE DEF D, key
<1>4. IsFiniteSet(Domains(s))
  BY <1>2, <1>3, ValuesFinite
<1> QED BY <1>1, <1>2, <1>4 DEF D

LEMMA ThirdPartyWithin ==
  ASSUME Figures, NEW N \in Nat, NEW answers, Citing(N, answers)
  PROVE  ThirdPartyShare(answers) <= Scale
<1> DEFINE f == [i \in 1..N |-> Cardinality({d \in Domains(answers[i]) : ClassOf[d] \in Earned})]
           g == [i \in 1..N |-> Cardinality(Domains(answers[i]))]
           c == SumFunctionOnSet(f, 1..N)
           n == SumFunctionOnSet(g, 1..N)
<1>1. \A i \in 1..N : IsFiniteSet(Domains(answers[i]))
  BY DomainsOf DEF Citing
<1>2. \A i \in 1..N : f[i] \in Nat /\ g[i] \in Nat /\ f[i] <= g[i]
  <2> SUFFICES ASSUME NEW i \in 1..N PROVE f[i] \in Nat /\ g[i] \in Nat /\ f[i] <= g[i]
    OBVIOUS
  <2> DEFINE D == Domains(answers[i])
             T == {d \in D : ClassOf[d] \in Earned}
  <2>1. IsFiniteSet(D) /\ T \in SUBSET D
    BY <1>1
  <2>2. f[i] = Cardinality(T) /\ g[i] = Cardinality(D)
    OBVIOUS
  <2> HIDE DEF D, T, f, g
  <2>3. IsFiniteSet(T) /\ Cardinality(T) <= Cardinality(D)
    BY <2>1, FS_Subset
  <2> QED BY <2>1, <2>2, <2>3, FS_CardinalityType
<1>3. DOMAIN f = 1..N /\ DOMAIN g = 1..N /\ DOMAIN answers = 1..N /\ IsFiniteSet(1..N)
  BY FS_Interval DEF Citing
<1>4. f \in [1..N -> Int] /\ g \in [1..N -> Int]
  <2>1. f = [i \in 1..N |-> f[i]] /\ g = [i \in 1..N |-> g[i]]
    OBVIOUS
  <2> HIDE DEF f, g
  <2> QED BY <1>2, <2>1
<1>5. Over(answers, LAMBDA s : Cardinality({d \in Domains(s) : ClassOf[d] \in Earned})) = c
  BY <1>3 DEF Over, Total, SumFunction
<1>6. Over(answers, LAMBDA s : Cardinality(Domains(s))) = n
  BY <1>3 DEF Over, Total, SumFunction
<1>7. ThirdPartyShare(answers) = Rate(c, n)
  BY <1>5, <1>6 DEF ThirdPartyShare
<1> HIDE DEF f, g
<1>8. Under(1..N, f, g)
  BY <1>2 DEF Under
<1>9. c <= n /\ c \in Nat /\ n \in Nat
  <2>1. c \in Nat /\ n \in Nat
    BY <1>2, <1>3, <1>4, SumNat
  <2> QED BY <2>1, <1>3, <1>4, <1>8, SumUnder
<1> HIDE DEF c, n
<1>10. Rate(c, n) \in 0..Scale
  BY <1>9, RateWithin
<1> QED BY <1>7, <1>10 DEF Figures

LinksTo(s, u, T) == T = {n \in DOMAIN s.links : s.links[n] = u}
LEMMA LinksFinite ==
  ASSUME NEW N \in Nat, NEW answers, Citing(N, answers), NEW u, NEW i \in 1..N, NEW T, LinksTo(answers[i], u, T)
  PROVE  IsFiniteSet(T)
<1>1. IsFiniteSet(DOMAIN answers[i].links) /\ T \in SUBSET (DOMAIN answers[i].links)
  BY DomainsOf DEF Citing, LinksTo
<1> QED BY <1>1, FS_Subset

\* There is one page a url, and their citations are the links of the answers.
Inventory(answers, all) ==
  /\ IsFiniteSet(all)
  /\ \A p \in all : p.citations \in Int /\ p.url \in DOMAIN DomainOf
  /\ \A p, q \in all : p.url = q.url => p = q
  /\ Total(all, LAMBDA p : p.citations) = Over(answers, LAMBDA s : Len(s.links))
LEMMA PagesAddUp ==
  ASSUME NEW N \in Nat, NEW answers, Citing(N, answers)
  PROVE  Inventory(answers, Pages(answers))
<1> DEFINE D == 1..N
           A == [i \in D |-> DOMAIN answers[i].links]
           f == [i \in D |-> Cardinality(A[i])]
           Q == UNION {{<<i, n>> : n \in A[i]} : i \in D}
           url == [q \in Q |-> answers[q[1]].links[q[2]]]
           urls == UNION {Members(answers[i].links) : i \in DOMAIN answers}
           one == [q \in Q |-> 1]
           h == [u \in urls |-> SumFunctionOnSet(one, {q \in Q : url[q] = u})]
           page == [u \in urls |-> [url |-> u, citations |-> Over(answers, LAMBDA s : Links(s, u)),
             engines |-> {answers[i].engine : i \in {j \in DOMAIN answers : Links(answers[j], u) > 0}},
             prompts |-> Cardinality({answers[i].prompt : i \in {j \in DOMAIN answers : Links(answers[j], u) > 0}})]]
           all == Pages(answers)
           g == [p \in all |-> p.citations]
           b == [p \in all |-> p.url]
<1>1. DOMAIN answers = D /\ IsFiniteSet(D) /\ D \in SUBSET Int
  BY FS_Interval DEF Citing
<1>2. \A i \in D : IsFiniteSet(A[i]) /\ Cardinality(A[i]) = Len(answers[i].links) /\ A[i] = DOMAIN answers[i].links /\ Len(answers[i].links) \in Nat
  BY DomainsOf DEF Citing
<1>3. IsFiniteSet(Q) /\ Cardinality(Q) = SumFunctionOnSet(f, D)
  <2>1. CardsOf(D, A, f)
    BY DEF CardsOf
  <2>2. PairsOf(D, A, Q)
    BY DEF PairsOf
  <2> HIDE DEF Q, f, A, D
  <2> QED BY <1>1, <1>2, <2>1, <2>2, CountsPairs
<1>4. Over(answers, LAMBDA s : Len(s.links)) = Cardinality(Q)
  <2> DEFINE k == [i \in D |-> Len(answers[i].links)]
  <2>1. k = f
    BY <1>2
  <2>2. Over(answers, LAMBDA s : Len(s.links)) = SumFunctionOnSet(k, D)
    BY <1>1 DEF Over, Total, SumFunction
  <2> HIDE DEF k, f, Q, D
  <2> QED BY <1>3, <2>1, <2>2
<1>5. AllKeys(Q, url, urls)
  <2>1. \A q \in Q : q[1] \in D /\ q[2] \in A[q[1]] /\ url[q] = answers[q[1]].links[q[2]]
    OBVIOUS
  <2>2. \A i \in D : \A n \in A[i] : <<i, n>> \in Q /\ url[<<i, n>>] = answers[i].links[n]
    OBVIOUS
  <2>5. \A q \in Q : \E i \in D : \E n \in DOMAIN answers[i].links : url[q] = answers[i].links[n]
    BY <2>1
  <2>6. \A i \in D : \A n \in DOMAIN answers[i].links : \E q \in Q : url[q] = answers[i].links[n]
    BY <2>2
  <2>3. \A u : u \in urls <=> \E i \in D : \E n \in DOMAIN answers[i].links : u = answers[i].links[n]
    BY <1>1 DEF Members
  <2> HIDE DEF Q, url, urls, A, D
  <2>7. \A u : u \in urls <=> \E q \in Q : u = url[q]
    BY <2>3, <2>5, <2>6
  <2> QED BY <2>7 DEF AllKeys
<1>6. one \in [Q -> Int] /\ \A q \in Q : one[q] = 1
  OBVIOUS
<1>7. SumsByKey(one, Q, url, urls, h)
  BY <1>5 DEF SumsByKey
<1>8. IsFiniteSet(urls) /\ h \in [urls -> Int] /\ SumFunctionOnSet(h, urls) = Cardinality(Q)
  <2> HIDE DEF Q, url, urls, h, one
  <2>1. SameSum(one, Q, h, urls)
    BY <1>3, <1>6, <1>7, SumByKey
  <2>2. SumFunctionOnSet(one, Q) = Cardinality(Q)
    BY <1>3, <1>6, SumOnes
  <2> QED BY <2>1, <2>2 DEF SameSum
<1>9. ASSUME NEW u \in urls PROVE h[u] = Over(answers, LAMBDA s : Links(s, u))
  <2> DEFINE B == [i \in D |-> {n \in DOMAIN answers[i].links : answers[i].links[n] = u}]
             k == [i \in D |-> Cardinality(B[i])]
             R == {q \in Q : url[q] = u}
  <2>1. h[u] = SumFunctionOnSet(one, R) /\ R \in SUBSET Q
    OBVIOUS
  <2>2. CardsOf(D, B, k)
    BY DEF CardsOf
  <2>3. PairsOf(D, B, R)
    <3>1. \A q \in Q : q[1] \in D /\ q[2] \in A[q[1]] /\ url[q] = answers[q[1]].links[q[2]] /\ q = <<q[1], q[2]>>
      OBVIOUS
    <3>2. \A i \in D : \A n \in A[i] : <<i, n>> \in Q /\ url[<<i, n>>] = answers[i].links[n]
      OBVIOUS
    <3>3. \A i \in D : B[i] = {n \in A[i] : answers[i].links[n] = u}
      OBVIOUS
    <3> HIDE DEF Q, url, A, B, D
    <3> QED BY <3>1, <3>2, <3>3 DEF PairsOf
  <2>4. \A i \in D : IsFiniteSet(B[i])
    <3> SUFFICES ASSUME NEW i \in D PROVE IsFiniteSet(B[i])
      OBVIOUS
    <3> DEFINE T == B[i]
    <3>1. LinksTo(answers[i], u, T) /\ i \in 1..N
      BY DEF LinksTo
    <3> HIDE DEF T
    <3>2. IsFiniteSet(T)
      BY <3>1, LinksFinite
    <3> QED BY <3>2 DEF T
  <2>5. Over(answers, LAMBDA s : Links(s, u)) = SumFunctionOnSet(k, D)
    BY <1>1 DEF Over, Total, SumFunction, Links
  <2> HIDE DEF B, k, R, D, Q, h, one, url, urls
  <2>6. Cardinality(R) = SumFunctionOnSet(k, D)
    BY <1>1, <2>2, <2>3, <2>4, CountsPairs
  <2>7. SumFunctionOnSet(one, R) = Cardinality(R)
    BY <1>3, <1>6, <2>1, SumOnes
  <2> QED BY <2>1, <2>5, <2>6, <2>7
<1>10. \A u \in urls : page[u].url = u /\ page[u].citations = h[u]
  <2> SUFFICES ASSUME NEW u \in urls PROVE page[u].url = u /\ page[u].citations = h[u]
    OBVIOUS
  <2>1. page[u].url = u /\ page[u].citations = Over(answers, LAMBDA s : Links(s, u))
    OBVIOUS
  <2> HIDE DEF page, h
  <2> QED BY <1>9, <2>1
<1>11. AllKeys(urls, page, all)
  <2>1. all = {[url |-> u, citations |-> Over(answers, LAMBDA s : Links(s, u)),
             engines |-> {answers[i].engine : i \in {j \in DOMAIN answers : Links(answers[j], u) > 0}},
             prompts |-> Cardinality({answers[i].prompt : i \in {j \in DOMAIN answers : Links(answers[j], u) > 0}})] : u \in urls}
    BY DEF Pages
  <2>2. all = {page[u] : u \in urls}
    BY <2>1
  <2> QED BY <2>2 DEF AllKeys
<1>12. Total(all, LAMBDA p : p.citations) = SumFunctionOnSet(g, all)
  BY DEF Total, SumFunction
<1>13. \A p \in all : g[p] = p.citations /\ b[p] = p.url
  OBVIOUS
<1>14. DOMAIN g = all /\ g = [p \in all |-> g[p]] /\ DOMAIN b = all /\ b = [p \in all |-> b[p]]
  OBVIOUS
<1> HIDE DEF page, all, urls, h, g, b, Q
<1>15. IsFiniteSet(all)
  BY <1>8, <1>11, ValuesFinite
<1>16. \A p \in all : \E u \in urls : p = page[u]
  BY <1>11 DEF AllKeys
<1>17. \A u \in urls : page[u] \in all
  BY <1>11 DEF AllKeys
<1>18. g \in [all -> Int] /\ Renames(urls, h, all, g, b)
  <2>1. \A p \in all : b[p] \in urls /\ p = page[b[p]] /\ g[p] = h[b[p]]
    BY <1>10, <1>13, <1>16
  <2>2. \A p \in all : g[p] \in Int
    BY <1>8, <2>1
  <2>3. g \in [all -> Int] /\ b \in [all -> urls]
    BY <1>14, <2>1, <2>2
  <2>4. \A u \in urls : \E p \in all : b[p] = u
    BY <1>10, <1>13, <1>17
  <2> QED BY <2>1, <2>3, <2>4 DEF Renames
<1>19. SumFunctionOnSet(g, all) = SumFunctionOnSet(h, urls)
  BY <1>8, <1>15, <1>18, SumRenamed
<1>20. Total(all, LAMBDA p : p.citations) = Over(answers, LAMBDA s : Len(s.links))
  BY <1>4, <1>8, <1>12, <1>19
<1>21. \A p \in all : p.citations \in Int /\ p.url \in urls
  BY <1>8, <1>10, <1>16
<1>22. \A p, q \in all : p.url = q.url => p = q
  BY <1>10, <1>16
<1>23. urls \subseteq DOMAIN DomainOf
  BY <1>1 DEF urls, Members, Citing
<1> QED BY <1>15, <1>20, <1>21, <1>22, <1>23 DEF all, Inventory

\* The two lists part what is shown; urls sort as their numbers do.
UrlsSort == DOMAIN DomainOf \in SUBSET Int /\ PageCap \in Nat
Precede(S) == {x \in S \X S : Beats(x[1], x[2])}
LEMMA PagesRanked ==
  ASSUME UrlsSort, NEW answers, Inventory(answers, Pages(answers)), NEW own \in BOOLEAN
  PROVE  LET S == PagesOf(answers, own) IN
         /\ IsFiniteSet(S) /\ S \subseteq Pages(answers) /\ Orders(S, Precede(S))
         /\ Listing(answers, own) = Foremost(S, Precede(S), PageCap)
<1> DEFINE S == PagesOf(answers, own)
           R == Precede(S)
<1>1. S \in SUBSET Pages(answers) /\ IsFiniteSet(S)
  <2>1. S \in SUBSET Pages(answers)
    BY DEF PagesOf
  <2> QED BY <2>1, FS_Subset DEF Inventory
<1>2. \A p \in S : p.citations \in Int /\ p.url \in Int
  BY <1>1 DEF Inventory, UrlsSort
<1>3. \A p, q \in S : p.url = q.url => p = q
  BY <1>1 DEF Inventory
<1>4. \A p, q \in S : <<p, q>> \in R <=> Beats(p, q)
  BY DEF Precede
<1> HIDE DEF R, S
<1>5. \A p \in S : ~ Beats(p, p)
  BY <1>2 DEF Beats
<1>6. \A p, q, r \in S : Beats(p, q) /\ Beats(q, r) => Beats(p, r)
  BY <1>2 DEF Beats
<1>7. \A p, q \in S : p = q \/ Beats(p, q) \/ Beats(q, p)
  BY <1>2, <1>3 DEF Beats
<1>8. Orders(S, R)
  BY <1>4, <1>5, <1>6, <1>7 DEF Orders
<1>9. \A p \in S : {q \in S : Beats(q, p)} = Preceding(S, R, p)
  BY <1>4 DEF Preceding
<1>10. Listing(answers, own) = Foremost(S, R, PageCap)
  <2>1. Listing(answers, own) = {p \in S : Cardinality({q \in S : Beats(q, p)}) < PageCap}
    BY DEF Listing, S
  <2> QED BY <1>9, <2>1 DEF Foremost
<1> QED BY <1>1, <1>8, <1>10 DEF S, R

LEMMA PagesAlwaysShown ==
  ASSUME UrlsSort, NEW N \in Nat, NEW answers, Citing(N, answers)
  PROVE  PagesShown(answers)
<1> DEFINE all == Pages(answers)
           Of(own) == PagesOf(answers, own)
           T(own) == Listing(answers, own)
           left == all \ (T(TRUE) \cup T(FALSE))
           g == [p \in all |-> p.citations]
<1>1. Inventory(answers, all)
  BY PagesAddUp
<1>2. \A own \in BOOLEAN :
        /\ T(own) \subseteq Of(own) /\ Of(own) \subseteq all
        /\ Cardinality(T(own)) <= PageCap
        /\ \A p \in Of(own) \ T(own) : Cardinality(T(own)) = PageCap /\ \A q \in T(own) : Beats(q, p)
  <2> SUFFICES ASSUME NEW own \in BOOLEAN
               PROVE  /\ T(own) \subseteq Of(own) /\ Of(own) \subseteq all
                      /\ Cardinality(T(own)) <= PageCap
                      /\ \A p \in Of(own) \ T(own) : Cardinality(T(own)) = PageCap /\ \A q \in T(own) : Beats(q, p)
    OBVIOUS
  <2> DEFINE S == Of(own)
             R == Precede(S)
  <2>1. IsFiniteSet(S) /\ S \subseteq all /\ Orders(S, R) /\ T(own) = Foremost(S, R, PageCap)
    BY <1>1, PagesRanked
  <2>2. \A p, q \in S : <<p, q>> \in R => Beats(p, q)
    BY DEF Precede
  <2> HIDE DEF S, R, all
  <2>3. LET F == Foremost(S, R, PageCap) IN
        /\ Cardinality(F) <= PageCap
        /\ \A x \in S \ F : Cardinality(F) = PageCap /\ \A y \in F : <<y, x>> \in R
    BY <2>1, RankCut DEF UrlsSort
  <2>4. Foremost(S, R, PageCap) \subseteq S
    BY DEF Foremost
  <2> HIDE DEF T
  <2>5. T(own) \subseteq S /\ S \subseteq all /\ Cardinality(T(own)) <= PageCap
        /\ \A p \in S \ T(own) : Cardinality(T(own)) = PageCap /\ \A q \in T(own) : Beats(q, p)
    BY <2>1, <2>2, <2>3, <2>4
  <2> QED BY <2>5 DEF S
<1>3. T(TRUE) \cap T(FALSE) = {}
  <2>1. \A p \in Of(TRUE) : Owned(p) = TRUE
    BY DEF PagesOf
  <2>2. \A p \in Of(FALSE) : Owned(p) = FALSE
    BY DEF PagesOf
  <2> HIDE DEF Of, T
  <2> QED BY <1>2, <2>1, <2>2
<1>4. \A p \in left : Owned(p) \in BOOLEAN /\ p \in Of(Owned(p)) \ T(Owned(p))
  BY DEF PagesOf, Owned, Is
<1>5. g \in [all -> Int] /\ IsFiniteSet(all)
  BY <1>1 DEF Inventory
<1>6. SumFunctionOnSet(g, all) = Over(answers, LAMBDA s : Len(s.links))
  BY <1>1 DEF Inventory, Total, SumFunction
<1>7. ASSUME NEW s \in SUBSET all
      PROVE  Total(s, LAMBDA p : p.citations) = SumFunctionOnSet(g, s) /\ SumFunctionOnSet(g, s) \in Int
  <2> DEFINE k == [p \in s |-> p.citations]
  <2>1. Total(s, LAMBDA p : p.citations) = SumFunctionOnSet(k, s)
    BY DEF Total, SumFunction
  <2>2. IsFiniteSet(s) /\ k \in [s -> Int] /\ \A p \in s : g[p] = k[p]
    BY <1>1, <1>5, FS_Subset DEF Inventory
  <2> HIDE DEF k, g, all
  <2>3. SumFunctionOnSet(g, s) = SumFunctionOnSet(k, s)
    BY <1>5, <2>2, SumAgrees
  <2>4. SumFunctionOnSet(g, s) \in Int
    BY <1>5, SumTyped
  <2> QED BY <2>1, <2>3, <2>4
<1>8. SumFunctionOnSet(g, T(TRUE)) + SumFunctionOnSet(g, T(FALSE)) + SumFunctionOnSet(g, left) = SumFunctionOnSet(g, all)
  <2> DEFINE a == T(TRUE)
             b == T(FALSE)
             rest == all \ a
             k == [p \in rest |-> g[p]]
  <2>1. a \in SUBSET all /\ b \in SUBSET all /\ b \in SUBSET rest /\ left = rest \ b /\ rest \in SUBSET all /\ left \in SUBSET rest
    BY <1>2, <1>3
  <2> HIDE DEF a, b, left, all, g
  <2>2. SumFunctionOnSet(g, all) = SumFunctionOnSet(g, a) + SumFunctionOnSet(g, rest)
    BY <1>5, <2>1, SumParts
  <2>3. IsFiniteSet(rest) /\ k \in [rest -> Int] /\ \A p \in rest : g[p] = k[p]
    BY <1>5, <2>1, FS_Subset
  <2> HIDE DEF rest, k
  <2>4. SumFunctionOnSet(k, rest) = SumFunctionOnSet(k, b) + SumFunctionOnSet(k, left)
    BY <2>1, <2>3, SumParts
  <2>5. /\ SumFunctionOnSet(g, rest) = SumFunctionOnSet(k, rest)
        /\ SumFunctionOnSet(g, b) = SumFunctionOnSet(k, b)
        /\ SumFunctionOnSet(g, left) = SumFunctionOnSet(k, left)
    <3>1. \A r \in SUBSET rest : r \in SUBSET all /\ r \subseteq rest /\ \A p \in r : g[p] = k[p]
      BY <2>1, <2>3
    <3>2. \A r \in SUBSET rest : SumFunctionOnSet(g, r) = SumFunctionOnSet(k, r)
      BY <1>5, <2>3, <3>1, SumAgrees
    <3> QED BY <2>1, <3>2
  <2>6. /\ SumFunctionOnSet(g, a) \in Int /\ SumFunctionOnSet(g, b) \in Int
        /\ SumFunctionOnSet(g, left) \in Int /\ SumFunctionOnSet(g, rest) \in Int
    BY <1>5, <2>1, SumTyped
  <2>7. SumFunctionOnSet(g, a) + SumFunctionOnSet(g, b) + SumFunctionOnSet(g, left) = SumFunctionOnSet(g, all)
    BY <2>2, <2>4, <2>5, <2>6
  <2> QED BY <2>7 DEF a, b
<1>9. Total(T(TRUE), LAMBDA p : p.citations) + Total(T(FALSE), LAMBDA p : p.citations) + Total(left, LAMBDA p : p.citations)
        = Over(answers, LAMBDA s : Len(s.links))
  <2>1. T(TRUE) \in SUBSET all /\ T(FALSE) \in SUBSET all /\ left \in SUBSET all
    BY <1>2
  <2> HIDE DEF T, left, all, g
  <2> QED BY <1>6, <1>7, <1>8, <2>1
<1>10. \A p \in left : Cardinality(T(Owned(p))) = PageCap /\ \A q \in T(Owned(p)) : Beats(q, p)
  <2> HIDE DEF T, left, all, Of
  <2> QED BY <1>2, <1>4
<1>11. \A own \in BOOLEAN : Cardinality(T(own)) <= PageCap
  BY <1>2
<1> QED BY <1>9, <1>10, <1>11 DEF PagesShown

LEMMA LengthOf ==
  ASSUME NEW n \in Nat, NEW s, DOMAIN s = 1..n
  PROVE  Len(s) = n
OBVIOUS

LEMMA BandOfNone ==
  ASSUME Figures
  PROVE  Low(0, 0) = 0 /\ High(0, 0) = Scale /\ Rate(0, 0) = 0
<1>1. \A g \in 0..Scale : ~ Beyond(g, 0, 0)
  BY DEF Beyond, Figures
<1>2. High(0, 0) \in 0..Scale /\ (High(0, 0) = Scale \/ Beyond(High(0, 0), 0, 0))
  BY HighOf
<1>3. High(0, 0) = Scale
  <2> DEFINE h == High(0, 0)
  <2>1. h \in 0..Scale /\ (h = Scale \/ Beyond(h, 0, 0))
    BY <1>2
  <2> HIDE DEF h
  <2>2. h = Scale
    BY <1>1, <2>1
  <2> QED BY <2>2 DEF h
<1>4. Low(0, 0) = 0
  BY <1>3 DEF Low, Figures
<1> QED BY <1>3, <1>4 DEF Rate

LEMMA BandOf ==
  ASSUME Figures, NEW c \in Nat, NEW n \in Nat, c <= n
  PROVE  Low(c, n) <= Rate(c, n) /\ Rate(c, n) <= High(c, n)
<1>1. CASE n = 0
  <2>1. c = 0
    BY <1>1
  <2> QED BY <1>1, <2>1, BandOfNone DEF Figures
<1>2. CASE n > 0
  BY <1>2, BandHolds
<1> QED BY <1>1, <1>2

\* What the judge said of the sentences.
Polarities == {"positive", "neutral", "negative", "not_about_brand"}
Opined(M, given) == DOMAIN given = 1..M /\ \A i \in 1..M : given[i].ok => given[i].polarity \in Polarities
AllScored(M, given) == \A i \in 1..M : given[i].ok

LEMMA SomeOpined ==
  ASSUME NEW M \in Nat, NEW given, Opined(M, given), NEW I \in SUBSET (1..M)
  PROVE  /\ Cardinality(I) \in Nat /\ Opined(Cardinality(I), Entries(given, I)) /\ Len(Entries(given, I)) = Cardinality(I)
         /\ IsFiniteSet(I) /\ Cardinality(I) <= M
<1>1. IsFiniteSet(1..M) /\ Cardinality(1..M) = M
  BY FS_Interval
<1>2. IsFiniteSet(I) /\ I \in SUBSET Int /\ Cardinality(I) \in Nat /\ Cardinality(I) <= M
  <2> DEFINE T == 1..M
  <2>1. IsFiniteSet(T) /\ Cardinality(T) = M /\ I \in SUBSET T /\ I \in SUBSET Int
    BY <1>1
  <2> HIDE DEF T
  <2>2. IsFiniteSet(I) /\ Cardinality(I) <= Cardinality(T)
    BY <2>1, FS_Subset
  <2> QED BY <2>1, <2>2, FS_CardinalityType
<1>3. DOMAIN Entries(given, I) = 1..Cardinality(I) /\ \A n \in 1..Cardinality(I) : InTurn(I)[n] \in I /\ Entries(given, I)[n] = given[InTurn(I)[n]]
  BY <1>2, EntriesOf
<1>4. Opined(Cardinality(I), Entries(given, I))
  BY <1>3 DEF Opined
<1>5. Len(Entries(given, I)) = Cardinality(I)
  BY <1>2, <1>3, LengthOf
<1> QED BY <1>2, <1>4, <1>5

\* What is kept for being scored is.
LEMMA KeptScored ==
  ASSUME NEW M \in Nat, NEW given, NEW I \in SUBSET (1..M), \A i \in I : given[i].ok
  PROVE  AllScored(Cardinality(I), Entries(given, I))
<1>1. IsFiniteSet(I) /\ I \in SUBSET Int
  BY PlacesOf
<1>2. \A n \in 1..Cardinality(I) : InTurn(I)[n] \in I /\ Entries(given, I)[n] = given[InTurn(I)[n]]
  BY <1>1, EntriesOf
<1> QED BY <1>2 DEF AllScored

OfPolarity(M, given, p) == {i \in 1..M : given[i].polarity = p}
LEMMA PolaritiesPart ==
  ASSUME NEW M \in Nat, NEW given, Opined(M, given), AllScored(M, given)
  PROVE  LET n(p) == Cardinality(OfPolarity(M, given, p)) IN
         M = n("positive") + n("neutral") + n("negative") + n("not_about_brand") /\ \A p : n(p) \in Nat
<1> DEFINE A(p) == OfPolarity(M, given, p)
           n(p) == Cardinality(A(p))
           U == A("positive") \cup A("neutral")
           V == U \cup A("negative")
           W == V \cup A("not_about_brand")
<1>1. IsFiniteSet(1..M) /\ Cardinality(1..M) = M
  BY FS_Interval
<1>2. \A p : IsFiniteSet(A(p)) /\ n(p) \in Nat
  <2> SUFFICES ASSUME NEW p PROVE IsFiniteSet(A(p)) /\ n(p) \in Nat
    OBVIOUS
  <2>1. A(p) \in SUBSET (1..M)
    BY DEF OfPolarity
  <2> HIDE DEF A
  <2> QED BY <1>1, <2>1, FS_Subset, FS_CardinalityType
<1>3. W = 1..M
  BY DEF OfPolarity, Opined, AllScored, Polarities
<1>4. /\ A("positive") \cap A("neutral") = {} /\ U \cap A("negative") = {} /\ V \cap A("not_about_brand") = {}
  BY DEF OfPolarity
<1> HIDE DEF A
<1>5. IsFiniteSet(U) /\ Cardinality(U) = n("positive") + n("neutral")
  <2>1. IsFiniteSet(U) /\ Cardinality(U) = n("positive") + n("neutral") - Cardinality(A("positive") \cap A("neutral"))
    BY <1>2, FS_Union
  <2> QED BY <1>2, <1>4, <2>1, FS_EmptySet
<1> HIDE DEF U
<1>6. IsFiniteSet(V) /\ Cardinality(V) = Cardinality(U) + n("negative")
  <2>1. IsFiniteSet(V) /\ Cardinality(V) = Cardinality(U) + n("negative") - Cardinality(U \cap A("negative"))
    BY <1>2, <1>5, FS_Union
  <2> QED BY <1>2, <1>4, <1>5, <2>1, FS_EmptySet
<1> HIDE DEF V
<1>7. Cardinality(W) = Cardinality(V) + n("not_about_brand")
  <2>1. Cardinality(W) = Cardinality(V) + n("not_about_brand") - Cardinality(V \cap A("not_about_brand"))
    BY <1>2, <1>6, FS_Union
  <2>2. Cardinality(V \cap A("not_about_brand")) = 0
    BY <1>4, FS_EmptySet
  <2>3. Cardinality(V) \in Nat /\ n("not_about_brand") \in Nat
    BY <1>2, <1>6, FS_CardinalityType
  <2> HIDE DEF W, n
  <2> QED BY <2>1, <2>2, <2>3
<1> QED BY <1>1, <1>2, <1>3, <1>5, <1>6, <1>7 DEF A

LEMMA OpinionsAddUp ==
  ASSUME Figures, NEW M \in Nat, NEW judged, Opined(M, judged), NEW e, NEW entity
  PROVE  LET v == Sentiment(judged, e, entity) IN
         /\ v.judged = v.positive + v.neutral + v.negative + v.other
         /\ v.low <= v.share /\ v.share <= v.high
         /\ v.judged + v.unscored = Len(Those(judged, LAMBDA r : r.engine = e /\ r.entity = entity))
<1> DEFINE given == Those(judged, LAMBDA r : r.engine = e /\ r.entity = entity)
           I == {i \in 1..M : judged[i].engine = e /\ judged[i].entity = entity}
           R == Cardinality(I)
<1>1. given = Entries(judged, I)
  BY DEF Those, Opined
<1>2. R \in Nat /\ Opined(R, given) /\ Len(given) = R
  <2>1. I \in SUBSET (1..M)
    OBVIOUS
  <2> HIDE DEF I, given
  <2> QED BY <1>1, <2>1, SomeOpined
<1> DEFINE kept == Scored(given)
           J == {i \in 1..R : given[i].ok /\ given[i].rubric = Rubric}
           S == Cardinality(J)
<1>3. S \in Nat /\ Opined(S, kept) /\ AllScored(S, kept) /\ Len(kept) = S
  <2> HIDE DEF given, R
  <2>1. kept = Entries(given, J)
    BY <1>2 DEF Scored, Those, Opined
  <2>2. J \in SUBSET (1..R) /\ \A i \in J : given[i].ok
    OBVIOUS
  <2> HIDE DEF J, kept
  <2>3. AllScored(S, kept)
    BY <1>2, <2>1, <2>2, KeptScored
  <2> QED BY <1>2, <2>1, <2>2, <2>3, SomeOpined
<1> DEFINE n(p) == Len(Those(kept, LAMBDA r : r.polarity = p))
           about == n("positive") + n("neutral") + n("negative")
           v == Sentiment(judged, e, entity)
<1>4. v = [judged |-> Len(kept), unscored |-> Len(given) - Len(kept),
           positive |-> n("positive"), neutral |-> n("neutral"), negative |-> n("negative"), other |-> n("not_about_brand"),
           share |-> Rate(n("negative"), about), low |-> Low(n("negative"), about), high |-> High(n("negative"), about)]
  BY DEF Sentiment
<1> HIDE DEF v, kept, given, S, R, I
<1>5. \A p : n(p) = Cardinality(OfPolarity(S, kept, p))
  <2> SUFFICES ASSUME NEW p PROVE n(p) = Cardinality(OfPolarity(S, kept, p))
    OBVIOUS
  <2> DEFINE P == OfPolarity(S, kept, p)
  <2>1. Those(kept, LAMBDA r : r.polarity = p) = Entries(kept, P)
    BY <1>3 DEF Those, Opined, OfPolarity
  <2>2. P \in SUBSET (1..S)
    BY DEF OfPolarity
  <2> HIDE DEF P
  <2>3. Len(Entries(kept, P)) = Cardinality(P)
    BY <1>3, <2>2, SomeOpined
  <2> QED BY <2>1, <2>3 DEF P
<1> HIDE DEF n
<1>6. S = n("positive") + n("neutral") + n("negative") + n("not_about_brand") /\ \A p : n(p) \in Nat
  BY <1>3, <1>5, PolaritiesPart
<1>7. /\ v.judged = S /\ v.unscored = R - S /\ v.positive = n("positive") /\ v.neutral = n("neutral")
      /\ v.negative = n("negative") /\ v.other = n("not_about_brand")
      /\ v.share = Rate(n("negative"), about) /\ v.low = Low(n("negative"), about) /\ v.high = High(n("negative"), about)
  <2> HIDE DEF about
  <2> QED BY <1>2, <1>3, <1>4
<1>8. v.low <= v.share /\ v.share <= v.high
  <2> DEFINE c == n("negative")
  <2>1. c \in Nat /\ about \in Nat /\ c <= about
    BY <1>6
  <2>2. v.share = Rate(c, about) /\ v.low = Low(c, about) /\ v.high = High(c, about)
    BY <1>7
  <2> HIDE DEF c, about
  <2>3. Low(c, about) <= Rate(c, about) /\ Rate(c, about) <= High(c, about)
    BY <2>1, BandOf
  <2> QED BY <2>2, <2>3
<1>9. v.judged + v.unscored = Len(given)
  BY <1>2, <1>3, <1>7
<1> QED BY <1>6, <1>7, <1>8, <1>9 DEF v, given

LEMMA OneEnginesAnswers ==
  ASSUME NEW N \in Nat, NEW answers, Citing(N, answers), NEW e
  PROVE  \E n \in Nat : Citing(n, By(answers, e))
<1> DEFINE I == {i \in 1..N : answers[i].engine = e}
<1>1. By(answers, e) = Entries(answers, I)
  BY DEF By, Those, Citing
<1>2. IsFiniteSet(I) /\ I \in SUBSET Int /\ I \in SUBSET (1..N)
  BY PlacesOf
<1> HIDE DEF I
<1>3. Cardinality(I) \in Nat
  BY <1>2, FS_CardinalityType
<1>4. DOMAIN By(answers, e) = 1..Cardinality(I) /\ \A n \in 1..Cardinality(I) : InTurn(I)[n] \in I /\ By(answers, e)[n] = answers[InTurn(I)[n]]
  BY <1>1, <1>2, EntriesOf
<1>5. Citing(Cardinality(I), By(answers, e))
  BY <1>2, <1>4 DEF Citing
<1> QED BY <1>3, <1>5

LEMMA CitesCount ==
  ASSUME NEW N \in Nat, NEW answers, Citing(N, answers), NEW e, NEW c
  PROVE  Cites(answers, e, c) \in Nat
<1>1. PICK n \in Nat : Citing(n, By(answers, e))
  BY OneEnginesAnswers
<1> DEFINE mine == By(answers, e)
           f == [i \in 1..n |-> Cardinality({k \in DOMAIN mine[i].links : ClassOf[DomainOf[mine[i].links[k]]] = c})]
<1>2. DOMAIN mine = 1..n /\ IsFiniteSet(1..n)
  BY <1>1, FS_Interval DEF Citing
<1>3. Cites(answers, e, c) = SumFunctionOnSet(f, 1..n)
  BY <1>2 DEF Cites, Over, Total, SumFunction
<1>4. \A i \in 1..n : f[i] \in Nat
  <2> SUFFICES ASSUME NEW i \in 1..n PROVE f[i] \in Nat
    OBVIOUS
  <2> DEFINE D == DOMAIN mine[i].links
             T == {k \in D : ClassOf[DomainOf[mine[i].links[k]]] = c}
  <2>1. IsFiniteSet(D)
    BY <1>1, DomainsOf DEF Citing
  <2>2. f[i] = Cardinality(T) /\ T \in SUBSET D
    OBVIOUS
  <2> HIDE DEF D, T, f
  <2> QED BY <2>1, <2>2, FS_Subset, FS_CardinalityType
<1>5. f = [i \in 1..n |-> f[i]]
  OBVIOUS
<1> HIDE DEF f
<1>6. f \in [1..n -> Int]
  BY <1>4, <1>5
<1>7. SumFunctionOnSet(f, 1..n) \in Nat
  BY <1>2, <1>4, <1>6, SumNat
<1> QED BY <1>3, <1>7

\* What is seen of an engine's citations: a row for each class cited.
RowsOf(Cs, row, mine) == AllKeys(Cs, row, mine) /\ \A c \in Cs : row[c].class = c
Shows(Cs, row, mine, r, g) == g = [t \in mine |-> g[t]] /\ \A c \in Cs : g[row[c]] = r[c]
LEMMA RowsCount ==
  ASSUME NEW Cs, IsFiniteSet(Cs), NEW r \in [Cs -> Int], NEW row, NEW mine, RowsOf(Cs, row, mine),
         NEW g, Shows(Cs, row, mine, r, g)
  PROVE  IsFiniteSet(mine) /\ SumFunctionOnSet(g, mine) = SumFunctionOnSet(r, Cs) /\ Cardinality(mine) = Cardinality(Cs)
<1> DEFINE b == [t \in mine |-> t.class]
           ones == [t \in mine |-> 1]
           one == [c \in Cs |-> 1]
<1>1. IsFiniteSet(mine)
  BY ValuesFinite DEF RowsOf
<1>2. (\A t \in mine : \E c \in Cs : t = row[c]) /\ \A c \in Cs : row[c] \in mine /\ row[c].class = c
  BY DEF RowsOf, AllKeys
<1>3. \A t \in mine : t.class \in Cs /\ t = row[t.class] /\ g[t] = r[t.class]
  <2> SUFFICES ASSUME NEW t \in mine PROVE t.class \in Cs /\ t = row[t.class] /\ g[t] = r[t.class]
    OBVIOUS
  <2>1. PICK c \in Cs : t = row[c]
    BY <1>2
  <2>2. t.class = c
    BY <1>2, <2>1
  <2>3. g[row[c]] = r[c]
    BY DEF Shows
  <2> QED BY <2>1, <2>2, <2>3
<1>4. b \in [mine -> Cs] /\ (\A c \in Cs : \E t \in mine : b[t] = c) /\ \A s, t \in mine : b[s] = b[t] => s = t
  BY <1>2, <1>3
<1>5. g \in [mine -> Int] /\ \A t \in mine : g[t] = r[b[t]]
  <2>1. g = [t \in mine |-> g[t]]
    BY DEF Shows
  <2> QED BY <1>3, <2>1
<1>6. ones \in [mine -> Int] /\ one \in [Cs -> Int] /\ (\A t \in mine : ones[t] = one[b[t]] /\ ones[t] = 1) /\ \A c \in Cs : one[c] = 1
  BY <1>4
<1> HIDE DEF b, ones, one
<1>7. Renames(Cs, r, mine, g, b) /\ Renames(Cs, one, mine, ones, b)
  BY <1>4, <1>5, <1>6 DEF Renames
<1>8. SumFunctionOnSet(g, mine) = SumFunctionOnSet(r, Cs)
  BY <1>1, <1>5, <1>7, SumRenamed
<1>9. SumFunctionOnSet(ones, mine) = SumFunctionOnSet(one, Cs)
  BY <1>1, <1>6, <1>7, SumRenamed
<1>10. SumFunctionOnSet(ones, mine) = Cardinality(mine) /\ SumFunctionOnSet(one, Cs) = Cardinality(Cs)
  BY <1>1, <1>6, SumOnes
<1> QED BY <1>1, <1>8, <1>9, <1>10

\* The parts there are: the sum is theirs, and positive.
PartsThere(K, w, Cs) == Cs = {c \in K : w[c] > 0}
LEMMA CitedClasses ==
  ASSUME NEW K, IsFiniteSet(K), NEW w \in [K -> Nat], NEW Cs, PartsThere(K, w, Cs), Cs # {}
  PROVE  /\ IsFiniteSet(Cs) /\ Cut(w, Cs) \in [Cs -> Nat] /\ (\A c \in Cs : Cut(w, Cs)[c] = w[c])
         /\ SumFunctionOnSet(w, K) = SumFunctionOnSet(Cut(w, Cs), Cs)
         /\ SumFunctionOnSet(w, K) \in Nat /\ SumFunctionOnSet(w, K) > 0
<1>1. Cs \in SUBSET K /\ (\A c \in K \ Cs : w[c] = 0) /\ \A c \in Cs : w[c] > 0 /\ w[c] \in Nat
  BY DEF PartsThere
<1>2. w \in [K -> Int] /\ \A c \in K : w[c] \in Nat
  OBVIOUS
<1>3. /\ IsFiniteSet(Cs) /\ Cut(w, Cs) \in [Cs -> Int] /\ (\A c \in Cs : Cut(w, Cs)[c] = w[c])
      /\ \A s \in SUBSET Cs : SumFunctionOnSet(Cut(w, Cs), s) = SumFunctionOnSet(w, s)
  BY <1>1, <1>2, SumCut
<1>4. InParts(w, K, Cs)
  <2>1. K \in SUBSET K
    OBVIOUS
  <2> QED BY <1>1, <1>2, <2>1, SumPartial
<1>5. SumFunctionOnSet(w, K) = SumFunctionOnSet(w, Cs) /\ SumFunctionOnSet(Cut(w, Cs), Cs) = SumFunctionOnSet(w, Cs)
  BY <1>1, <1>3, <1>4 DEF InParts
<1>6. SumFunctionOnSet(w, K) \in Nat
  BY <1>2, SumNat
<1>7. PICK x \in Cs : TRUE
  OBVIOUS
<1>8. SumFunctionOnSet(w, K) >= w[x]
  <2> DEFINE zero == [c \in K |-> 0]
  <2>1. zero \in [K -> Int] /\ Under(K, zero, w) /\ \A c \in K : zero[c] = 0
    BY <1>2 DEF Under
  <2>4. Scaled(K, zero, 0, zero)
    BY DEF Scaled
  <2> HIDE DEF zero
  <2>2. \A c \in K : w[c] - zero[c] <= SumFunctionOnSet(w, K) - SumFunctionOnSet(zero, K)
    BY <1>2, <2>1, SumCompares
  <2>3. SumFunctionOnSet(zero, K) = 0
    <3>1. SumFunctionOnSet(zero, K) = 0 * SumFunctionOnSet(zero, K) /\ SumFunctionOnSet(zero, K) \in Int
      BY <2>1, <2>4, SumTimes, SumTyped
    <3> QED BY <3>1
  <2> QED BY <1>1, <1>2, <1>6, <2>1, <2>2, <2>3
<1>9. Cut(w, Cs) \in [Cs -> Nat]
  BY <1>1 DEF Cut
<1> QED BY <1>1, <1>3, <1>5, <1>6, <1>8, <1>9

TrustRow(answers, e, n, c) ==
  [engine |-> e, class |-> c, citations |-> Cites(answers, e, c), share |-> Rate(Cites(answers, e, c), n)]
LEMMA TrustAddsUp ==
  ASSUME Figures, NEW K, ClassesOf(K), IsFiniteSet(K), NEW N \in Nat, NEW answers, Citing(N, answers), NEW e \in Engines
  PROVE  LET mine == {t \in Trust(answers) : t.engine = e} IN
         mine # {} => LET off == 2 * (Total(mine, LAMBDA t : t.share) - Scale) IN
                      0 - Cardinality(mine) <= off /\ off <= Cardinality(mine)
<1> DEFINE w == [c \in K |-> Cites(answers, e, c)]
           all == SumFunctionOnSet(w, K)
           Cs == {c \in K : w[c] > 0}
           cut == Cut(w, Cs)
           row == [c \in Cs |-> [engine |-> e, class |-> c, citations |-> w[c], share |-> Rate(w[c], all)]]
           mine == {t \in Trust(answers) : t.engine = e}
           g == [t \in mine |-> t.share]
           r == [c \in Cs |-> Rate(cut[c], all)]
<1> SUFFICES ASSUME mine # {}
             PROVE  LET off == 2 * (Total(mine, LAMBDA t : t.share) - Scale) IN
                    0 - Cardinality(mine) <= off /\ off <= Cardinality(mine)
  OBVIOUS
<1>1. w \in [K -> Nat] /\ \A c \in K : w[c] = Cites(answers, e, c)
  <2>1. \A c \in K : Cites(answers, e, c) \in Nat
    BY CitesCount
  <2> QED BY <2>1
<1>2. Total({ClassOf[d] : d \in DOMAIN ClassOf}, LAMBDA c : Cites(answers, e, c)) = all
  BY DEF Total, SumFunction, ClassesOf
<1>3. \A t : t \in mine <=> \E c \in K : Cites(answers, e, c) > 0 /\ t = TrustRow(answers, e, all, c)
  <2> DEFINE total(x) == Total({ClassOf[d] : d \in DOMAIN ClassOf}, LAMBDA c : Cites(answers, x, c))
             rec(x, c) == TrustRow(answers, x, total(x), c)
             Y == {y \in Engines \X K : Cites(answers, y[1], y[2]) > 0}
             T == Trust(answers)
  <2>1. T = {rec(y[1], y[2]) : y \in Y}
    BY Zenon DEF Trust, ClassesOf, TrustRow
  <2>2. \A x, c : rec(x, c).engine = x
    BY DEF TrustRow
  <2>3. total(e) = all
    BY <1>2
  <2>4. \A c : rec(e, c) = TrustRow(answers, e, all, c)
    BY <2>3
  <2>5. \A y \in Y : y[1] \in Engines /\ y[2] \in K /\ Cites(answers, y[1], y[2]) > 0
    OBVIOUS
  <2>6. \A c \in K : Cites(answers, e, c) > 0 => \E y \in Y : y[1] = e /\ y[2] = c
    <3> SUFFICES ASSUME NEW c \in K, Cites(answers, e, c) > 0 PROVE \E y \in Y : y[1] = e /\ y[2] = c
      OBVIOUS
    <3> DEFINE y0 == <<e, c>>
    <3>1. y0 \in Y /\ y0[1] = e /\ y0[2] = c
      OBVIOUS
    <3> QED BY <3>1
  <2>7. \A t : t \in mine <=> t \in T /\ t.engine = e
    OBVIOUS
  <2> HIDE DEF rec, Y, T, all, mine
  <2>8. ASSUME NEW t, t \in mine PROVE \E c \in K : Cites(answers, e, c) > 0 /\ t = TrustRow(answers, e, all, c)
    <3>1. PICK y \in Y : t = rec(y[1], y[2])
      BY <2>1, <2>7, <2>8
    <3>2. y[1] = e
      BY <2>2, <2>7, <2>8, <3>1
    <3> QED BY <2>4, <2>5, <3>1, <3>2
  <2>9. ASSUME NEW c \in K, Cites(answers, e, c) > 0 PROVE TrustRow(answers, e, all, c) \in mine
    <3>1. PICK y \in Y : y[1] = e /\ y[2] = c
      BY <2>6, <2>9
    <3>2. rec(y[1], y[2]) \in T
      BY <2>1
    <3>3. rec(e, c) \in T /\ rec(e, c).engine = e
      BY <2>2, <3>1, <3>2
    <3> QED BY <2>4, <2>7, <3>3
  <2> QED BY <2>8, <2>9
<1>4. AllKeys(Cs, row, mine)
  <2>1. \A c \in Cs : row[c] = TrustRow(answers, e, all, c)
    BY DEF TrustRow
  <2>2. \A c : c \in Cs <=> c \in K /\ Cites(answers, e, c) > 0
    OBVIOUS
  <2> HIDE DEF Cs, row, mine, all
  <2>3. \A t : t \in mine <=> \E c \in Cs : t = row[c]
    BY <1>3, <2>1, <2>2
  <2> QED BY <2>3 DEF AllKeys
<1>5. RowsOf(Cs, row, mine)
  <2>1. \A c \in Cs : row[c].class = c
    OBVIOUS
  <2> HIDE DEF Cs, row, mine
  <2> QED BY <1>4, <2>1 DEF RowsOf
<1>6. Cs # {} /\ PartsThere(K, w, Cs)
  <2>1. Cs # {}
    <3> HIDE DEF Cs, row, mine
    <3> QED BY <1>4 DEF AllKeys
  <2> QED BY <2>1 DEF PartsThere
<1>7. /\ IsFiniteSet(Cs) /\ cut \in [Cs -> Nat] /\ (\A c \in Cs : cut[c] = w[c])
      /\ all = SumFunctionOnSet(cut, Cs) /\ all \in Nat /\ all > 0
  <2> HIDE DEF w, Cs
  <2> QED BY <1>1, <1>6, CitedClasses
<1>8. RatesOf(Cs, cut, all, r)
  BY DEF RatesOf
<1>9. \A c \in Cs : row[c].share = Rate(w[c], all) /\ r[c] = Rate(cut[c], all)
  OBVIOUS
<1>10. g = [t \in mine |-> g[t]] /\ DOMAIN g = mine /\ \A t \in mine : g[t] = t.share
  OBVIOUS
<1>11. Total(mine, LAMBDA t : t.share) = SumFunctionOnSet(g, mine)
  BY DEF Total, SumFunction
<1>12. r = [c \in Cs |-> r[c]]
  OBVIOUS
<1> HIDE DEF w, all, Cs, cut, row, mine, g, r
<1>13. (\A c \in Cs : r[c] \in Nat) /\ Shows(Cs, row, mine, r, g)
  <2>1. \A c \in Cs : Rate(cut[c], all) \in Nat
    BY <1>7, RateIs
  <2>2. \A c \in Cs : row[c] \in mine
    BY <1>4 DEF AllKeys
  <2>3. \A c \in Cs : r[c] \in Nat /\ g[row[c]] = r[c]
    BY <1>7, <1>9, <1>10, <2>1, <2>2
  <2> QED BY <1>10, <2>3 DEF Shows
<1>14. r \in [Cs -> Int]
  BY <1>12, <1>13
<1>15. SumFunctionOnSet(g, mine) = SumFunctionOnSet(r, Cs) /\ Cardinality(mine) = Cardinality(Cs)
  BY <1>5, <1>7, <1>10, <1>13, <1>14, RowsCount
<1>16. LET off == 2 * (SumFunctionOnSet(r, Cs) - Scale) IN 0 - Cardinality(Cs) <= off /\ off <= Cardinality(Cs)
  BY <1>7, <1>8, RoundedParts
<1> QED BY <1>11, <1>15, <1>16

\* insights.py: whatever the answers cite and the judge says, a share of third parties is
\* a part of the whole, an engine's trust profile is all of it but for half a digit a
\* class, the pages shown and those their full lists leave out have all the links, and
\* a sentence is judged once or left unscored, its rate inside its band.
THEOREM SharesAlwaysAddUp ==
  ASSUME Figures, UrlsSort, NEW K, ClassesOf(K), IsFiniteSet(K), NEW N \in Nat, NEW answers, Citing(N, answers),
         NEW M \in Nat, NEW judged, Opined(M, judged)
  PROVE  SharesAddUp(answers, judged)
<1>1. ThirdPartyShare(answers) <= Scale
  BY ThirdPartyWithin
<1>2. \A e \in Engines : LET mine == {t \in Trust(answers) : t.engine = e} IN
       mine # {} => LET off == 2 * (Total(mine, LAMBDA t : t.share) - Scale) IN
                    0 - Cardinality(mine) <= off /\ off <= Cardinality(mine)
  BY TrustAddsUp
<1>3. PagesShown(answers)
  BY PagesAlwaysShown
<1>4. \A e \in Engines : LET v == Sentiment(judged, e, "client") IN
       /\ v.judged = v.positive + v.neutral + v.negative + v.other
       /\ v.low <= v.share /\ v.share <= v.high
       /\ v.judged + v.unscored = Len(Those(judged, LAMBDA r : r.engine = e /\ r.entity = "client"))
  BY OpinionsAddUp
<1> QED BY <1>1, <1>2, <1>3, <1>4, Zenon DEF SharesAddUp
=============================================================================
