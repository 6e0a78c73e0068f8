----------------------------- MODULE Scheduler -----------------------------
(***************************************************************************)
(* prompt_tracking/scheduler.py: the command line's jobs.  A pass asks the *)
(* clock before every job, runs the due ones one after the other and notes *)
(* when each STARTED; an interrupt in the middle of a run ends the pass    *)
(* and leaves no trace of that run.                                        *)
(*                                                                         *)
(* `jobs` is a sequence of [every, enabled]; the table `jobs` of the store *)
(* is a function from the numbers of the jobs that ran.                    *)
(***************************************************************************)
EXTENDS Integers, Sequences, FiniteSets, SequencesExt

\* parse_interval: a named interval or a number of units, in minutes.
Units == [min |-> 1, h |-> 60, d |-> 1440, w |-> 10080, mo |-> 43200]
ParseInterval(n, unit) == IF n < 1 THEN 0 ELSE n * Units[unit]

Known(store, j) == {j} \cap DOMAIN store
\* _is_due
IsDue(jobs, store, j, now) == \A k \in Known(store, j) : now >= store[k].last + jobs[j].every
\* record_job_run
Note(store, j, start, every, status) ==
  [k \in DOMAIN store \cup {j} |-> IF k = j THEN [last |-> start, next |-> start + every, status |-> status] ELSE store[k]]

\* One job of a pass.  A run lasts `run[j].lasts` and ends ok, failed (which is
\* noted) or interrupted (which is not).
RunJob(jobs, run, force, p, j) ==
  IF p.stopped \/ ~ jobs[j].enabled \/ (~ force /\ ~ IsDue(jobs, p.store, j, p.clock)) THEN p
  ELSE IF run[j].ends = "interrupted"
       THEN [p EXCEPT !.stopped = TRUE, !.starts = Append(@, [job |-> j, at |-> p.clock, noted |-> FALSE, forced |-> force])]
  ELSE [p EXCEPT !.clock = @ + run[j].lasts, !.store = Note(@, j, p.clock, jobs[j].every, run[j].ends),
                 !.starts = Append(@, [job |-> j, at |-> p.clock, noted |-> TRUE, forced |-> force])]
\* Mutant: what is noted is when the run ended.
RunDueByEnd(jobs, run, force, p) ==
  FoldLeft(LAMBDA q, j : IF RunJob(jobs, run, force, q, j) = q \/ run[j].ends = "interrupted" THEN RunJob(jobs, run, force, q, j)
                         ELSE [RunJob(jobs, run, force, q, j) EXCEPT !.store = Note(@, j, q.clock + run[j].lasts, jobs[j].every, run[j].ends)],
           p, [j \in DOMAIN jobs |-> j])
\* run_due
RunDue(jobs, run, force, p) ==
  FoldLeft(LAMBDA q, j : RunJob(jobs, run, force, q, j), p, [j \in DOMAIN jobs |-> j])
Idle(store, now) == [clock |-> now, store |-> store, starts |-> <<>>, stopped |-> FALSE, passes |-> <<>>]

\* status
Status(jobs, store, now) ==
  [j \in DOMAIN jobs |-> [due |-> jobs[j].enabled /\ IsDue(jobs, store, j, now),
                          next |-> {store[k].next : k \in Known(store, j)}]]

\* daemon: passes `poll` apart, each with its runs; after an interrupt the operator
\* starts it again.
OnePass(jobs, poll, p, x) ==
  LET q == RunDue(jobs, x.run, x.force, [p EXCEPT !.stopped = FALSE]) IN
  [q EXCEPT !.clock = @ + poll, !.passes = Append(@, [from |-> p.clock, to |-> q.clock, stopped |-> q.stopped])]
Daemon(jobs, passes, poll) == FoldLeft(LAMBDA p, x : OnePass(jobs, poll, p, x), Idle(<<>>, 0), passes)

\* Two noted runs of a job start its interval apart unless an operator forced the second.
RunsApart(jobs, s) ==
  \A a, b \in DOMAIN s :
    a < b /\ s[a].job = s[b].job /\ s[a].noted /\ ~ s[b].forced => s[b].at - s[a].at >= jobs[s[a].job].every
\* A job that is due when a pass begins runs in it, unless the pass was interrupted.
DueJobsRun(jobs, s, x) ==
  \A j \in DOMAIN jobs :
    LET began == {a \in DOMAIN s : s[a].job = j /\ s[a].noted /\ s[a].at < x.from} IN
    jobs[j].enabled /\ ~ x.stopped /\ (\A a \in began : x.from - s[a].at >= jobs[j].every)
      => \E a \in DOMAIN s : s[a].job = j /\ s[a].at >= x.from /\ s[a].at <= x.to
\* What status calls due is what its date says, and a pass now would run it.
StatusTrue(jobs, end) ==
  LET now == Status(jobs, end.store, end.clock)
      done == RunDue(jobs, [k \in DOMAIN jobs |-> [lasts |-> 0, ends |-> "ok"]], FALSE, Idle(end.store, end.clock)) IN
  \A j \in DOMAIN jobs : jobs[j].enabled =>
    /\ now[j].due <=> (\A t \in now[j].next : t <= end.clock)
    /\ now[j].due => done.store[j].last = end.clock

\* scheduler.py: two noted runs of a job start its interval apart unless an operator
\* forced one; a job that is due when a pass begins runs in it, unless the pass was
\* interrupted; a disabled one never; an interrupted run is due again at once;
\* and status says so.
RunsOnTime(jobs, passes, poll) ==
  LET end == Daemon(jobs, passes, poll) IN
  /\ RunsApart(jobs, end.starts)
  /\ \A a \in DOMAIN end.starts : jobs[end.starts[a].job].enabled
  /\ \A n \in DOMAIN end.passes : DueJobsRun(jobs, end.starts, end.passes[n])
  /\ StatusTrue(jobs, end)
=============================================================================
