------------------------------- MODULE Alerts -------------------------------
(***************************************************************************)
(* What a project hears about: control_plane/runner.py (_raise_alerts),    *)
(* alerting/dispatch.py and the tables alert_destinations and alert_events *)
(* of alerting/store.py.                                                   *)
(*                                                                         *)
(* A crawl, on the worker thread, ends by comparing the two latest         *)
(* windows; what it finds is recorded, and sent if the gates let it pass.  *)
(* The owner changes the destination at any moment.  Time is counted in    *)
(* ticks.  A key is a rule, a platform and a subject, one key per rule.    *)
(* What the comparison finds, and whether there is anything to compare, is *)
(* an input: any few of the keys, or none.                                 *)
(***************************************************************************)
EXTENDS Integers, Sequences, FiniteSets

CONSTANTS
  Keys,             \* the dedupe keys
  Destinations,     \* what an owner stores: enabled, channels, rules
  Mailer,           \* SMTP is configured
  Day, Cooldown,    \* 24 hours and ALERT_COOLDOWN_HOURS, in ticks
  Ceiling,          \* ALERTS_MAX_PER_PROJECT_PER_DAY
  MaxBatch,         \* bound on the events of one crawl
  MaxRows,          \* bound on the history
  MaxTime           \* bound on ticks

DestinationType == [enabled : BOOLEAN, channels : SUBSET {"slack", "email"}, rules : SUBSET Keys]

ASSUME ConstantsAssumption ==
  /\ Day \in Nat /\ Cooldown \in Nat /\ Ceiling \in Nat
  /\ Mailer \in BOOLEAN
  /\ MaxBatch \in Nat /\ MaxRows \in Nat /\ MaxTime \in Nat
  /\ Destinations \subseteq DestinationType
  /\ \A d \in Destinations : d.enabled => d.channels # {}

VARIABLES
  now,          \* the time
  dest,         \* the row of alert_destinations
  rows,         \* alert_events, in the order they were written
  sent,         \* the rows some channel accepted a message for
  job           \* the alert phase of a crawl

vars == <<now, dest, rows, sent, job>>

NoDestination == [enabled |-> FALSE, channels |-> {}, rules |-> Keys]
NoJob == [at |-> "none", todo |-> <<>>, dest |-> NoDestination,
          time |-> 0, today |-> 0, accepted |-> FALSE]

Init ==
  /\ now = 0
  /\ dest = NoDestination
  /\ rows = <<>> /\ sent = {}
  /\ job = NoJob

----------------------------------------------------------------------------
(* The crawl. *)

Batches == UNION {[1..n -> dest.rules] : n \in 1..MaxBatch}

\* _raise_alerts: a destination that is on, and something to tell.
Raise ==
  /\ job.at = "none"
  /\ dest.enabled
  /\ Len(rows) + MaxBatch <= MaxRows
  /\ \E events \in Batches : job' = [NoJob EXCEPT !.at = "raised", !.todo = events]
  /\ UNCHANGED <<now, dest, rows, sent>>

Delivered(i) == rows[i].outcome = "delivered"

\* delivered_since.
DeliveredSince(time) == {i \in DOMAIN rows : Delivered(i) /\ rows[i].at >= time}

\* dispatch reads the destination again, the clock, and what was sent in a day.
Open ==
  /\ job.at = "raised"
  /\ job' = [job EXCEPT !.at = "event", !.dest = dest, !.time = now,
                        !.today = Cardinality(DeliveredSince(now - Day))]
  /\ UNCHANGED <<now, dest, rows, sent>>

\* Mutant: only what was delivered before this dispatch is looked at.
FiredBefore(key) ==
  \E i \in DeliveredSince(job.time - Cooldown) : rows[i].key = key /\ rows[i].at < job.time

\* fired_since.
Fired(key) == \E i \in DeliveredSince(job.time - Cooldown) : rows[i].key = key

\* _channels: email needs a mail server.
Reachable == IF Mailer THEN job.dest.channels ELSE job.dest.channels \ {"email"}

\* _suppressed, in the order of its returns; then a destination out of reach.
Reason(key) ==
  IF ~ job.dest.enabled THEN "alerts_off"
  ELSE IF key \notin job.dest.rules THEN "rule_off"
  ELSE IF Ceiling = 0 THEN "sending_disabled"
  ELSE IF job.today >= Ceiling THEN "daily_limit"
  ELSE IF Fired(key) THEN "cooldown"
  ELSE IF Reachable = {} THEN "no_destination"
  ELSE "pending"

\* Every event is written before anything is sent.
Record ==
  /\ job.at = "event" /\ job.todo # <<>>
  /\ LET key == Head(job.todo)
         outcome == Reason(key)
     IN /\ rows' = Append(rows, [key |-> key, at |-> job.time, outcome |-> outcome])
        /\ job' = IF outcome = "pending" THEN [job EXCEPT !.at = "send"]
                  ELSE [job EXCEPT !.todo = Tail(job.todo)]
  /\ UNCHANGED <<now, dest, sent>>

\* _deliver: some channel accepts the message, or none does.
Deliver(accepted) ==
  /\ job.at = "send"
  /\ sent' = IF accepted THEN sent \cup {Len(rows)} ELSE sent
  /\ job' = [job EXCEPT !.at = "mark", !.accepted = accepted]
  /\ UNCHANGED <<now, dest, rows>>

\* Mutant: an attempt is a delivery.
MarkAttempt ==
  /\ job.at = "mark"
  /\ rows' = [rows EXCEPT ![Len(rows)].outcome = "delivered"]
  /\ job' = [job EXCEPT !.at = "event", !.todo = Tail(job.todo), !.today = job.today + 1]
  /\ UNCHANGED <<now, dest, sent>>

\* Mutant: the count of the day is not kept up.
MarkUncounted ==
  /\ job.at = "mark"
  /\ rows' = [rows EXCEPT ![Len(rows)].outcome = IF job.accepted THEN "delivered" ELSE "failed"]
  /\ job' = [job EXCEPT !.at = "event", !.todo = Tail(job.todo)]
  /\ UNCHANGED <<now, dest, sent>>

\* mark, and the count of the day.
Mark ==
  /\ job.at = "mark"
  /\ rows' = [rows EXCEPT ![Len(rows)].outcome = IF job.accepted THEN "delivered" ELSE "failed"]
  /\ job' = [job EXCEPT !.at = "event", !.todo = Tail(job.todo),
                        !.today = IF job.accepted THEN job.today + 1 ELSE job.today]
  /\ UNCHANGED <<now, dest, sent>>

Finish ==
  /\ job.at = "event" /\ job.todo = <<>>
  /\ job' = NoJob
  /\ UNCHANGED <<now, dest, rows, sent>>

\* The process dies, or a statement fails: _raise_alerts swallows the error and
\* the events that are left.
Break ==
  /\ job.at # "none"
  /\ job' = NoJob
  /\ UNCHANGED <<now, dest, rows, sent>>

----------------------------------------------------------------------------

\* save_destination, which refuses to turn alerts on with nowhere to send them.
SetDestination(d) ==
  /\ d # dest
  /\ dest' = d
  /\ UNCHANGED <<now, rows, sent, job>>

Tick ==
  /\ now < MaxTime
  /\ now' = now + 1
  /\ UNCHANGED <<dest, rows, sent, job>>

Dispatch == Open \/ Record \/ (\E ok \in BOOLEAN : Deliver(ok)) \/ Mark \/ Finish

Next ==
  \/ Raise
  \/ Dispatch
  \/ Break
  \/ \E d \in Destinations : SetDestination(d)
  \/ Tick

Spec == Init /\ [][Next]_vars

----------------------------------------------------------------------------
(* Properties. *)

Outcomes == {"alerts_off", "rule_off", "sending_disabled", "daily_limit", "cooldown",
             "no_destination", "pending", "delivered", "failed"}
Rows == [key : Keys, at : Nat, outcome : Outcomes]

Jobs == [at : {"none", "raised", "event", "send", "mark"}, todo : Seq(Keys),
         dest : DestinationType, time : Nat, today : Nat, accepted : BOOLEAN]

\* Every variable has its type; a dispatch that sends is at the last row of the
\* history, which it wrote and has not marked (store.py: record, mark).
TypeOK ==
  /\ now \in Nat
  /\ dest \in DestinationType
  /\ rows \in Seq(Rows) /\ sent \subseteq DOMAIN rows
  /\ job \in Jobs
  /\ job.at \in {"send", "mark"} =>
       /\ Len(rows) > 0 /\ job.todo # <<>>
       /\ rows[Len(rows)].outcome = "pending" /\ rows[Len(rows)].at = job.time

\* "A crash can duplicate a message but never lose the record" (ADR 0024): a row
\* says delivered exactly when a message went out, unless it was left unmarked.
HistoryIsTrue ==
  \A i \in DOMAIN rows : rows[i].outcome # "pending" => (i \in sent <=> Delivered(i))

\* Two messages about one thing are more than a cooldown apart, in one batch and
\* over any number of crawls; only a crash between sending and marking the first
\* can bring them closer (dispatch.py: fired_since).
CooldownKept ==
  \A i, j \in sent : i < j /\ rows[i].key = rows[j].key /\ Delivered(i)
    => rows[j].at > rows[i].at + Cooldown

\* The messages of the day that ended with the j-th row.
Before(j) == {i \in sent : i < j /\ rows[i].at >= rows[j].at - Day}

\* Of the messages of any day no more are marked delivered than the ceiling, whatever
\* the crawls found (dispatch.py: sent_today).
CeilingKept == \A j \in sent : Cardinality({i \in Before(j) : Delivered(i)}) < Ceiling

\* A message of the key of the j-th row, within its cooldown.
Echoes(i, j) == i < j /\ rows[i].key = rows[j].key /\ rows[i].at >= rows[j].at - Cooldown

\* "Why didn't I hear about this?" has a true answer: an event kept quiet by the
\* cooldown, or by the ceiling, has messages that went out to show for it.
TrueReasons ==
  \A j \in DOMAIN rows :
    /\ rows[j].outcome = "cooldown" => \E i \in sent : Echoes(i, j)
    /\ rows[j].outcome = "daily_limit" => Cardinality(Before(j)) >= Ceiling
=============================================================================
