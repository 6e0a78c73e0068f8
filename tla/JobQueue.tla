------------------------------ MODULE JobQueue ------------------------------
(***************************************************************************)
(* control_plane/jobs.py: the in-memory queue of project runs.  Callers    *)
(* (the event-loop thread that serves POST /run, and the poller thread of  *)
(* __main__.py) call JobManager.submit; one worker thread, started by the  *)
(* first submission, executes the jobs.                                    *)
(*                                                                         *)
(* submit reads the project store, registers the job under the lock, and   *)
(* hands it to queue.Queue only AFTER the lock is released, so it is four  *)
(* steps here: Lookup; Coalesce, Refuse or Admit; Put; EnsureWorker.  What *)
(* a run does is JobQueue's environment: it ends or it raises.             *)
(***************************************************************************)
EXTENDS Integers, Sequences, FiniteSets, SequencesExt

CONSTANTS
  NumProjects,     \* projects, numbered in the order list_projects returns
  Requests,        \* RunRequest bodies
  DefaultRequest,  \* RunRequest(): what the poller asks for
  Callers,         \* threads that call submit
  Poller,          \* the one that runs poll_forever
  Threads,         \* worker threads the process could start
  Jobs,            \* job ids: an id is drawn again once nothing refers to it
  Keep,            \* how many ended jobs stay listed
  MaxQueued,       \* how many jobs may wait
  MaxRestarts,     \* bound on process restarts
  NoJob, NoKey, NoThread

Projects == 1..NumProjects
Keys == Projects \X Requests    \* what two identical submissions share

ASSUME ConstantsAssumption ==
  /\ NumProjects \in Nat /\ DefaultRequest \in Requests
  /\ Poller \in Callers
  /\ IsFiniteSet(Jobs) /\ NoJob \notin Jobs
  /\ NoKey \notin Keys /\ NoThread \notin Threads
  /\ Keep \in Nat \ {0} /\ MaxQueued \in Nat \ {0}   \* max(keep, 1), max(max_queued, 1)
  /\ MaxRestarts \in Nat

VARIABLES
  registered,      \* projects the store holds, all of them enabled
  order,           \* _order
  state,           \* _jobs[j].state, "none" when _jobs has no such key
  asked,           \* _jobs[j].project_id and .request
  queue,           \* _queue
  worker,          \* _worker
  pc, want, hand,  \* per caller: where in submit, for what, holding which job
  todo,            \* what is left of the poller's pass over the projects
  at, cur,         \* per thread: where in _work_forever, with which job
  restarts

jobVars == <<order, state, asked>>
callerVars == <<pc, want, hand, todo>>
threadVars == <<worker, at, cur>>
vars == <<registered, jobVars, queue, callerVars, threadVars, restarts>>

States == {"none", "queued", "running", "finished", "failed"}
Active == {"queued", "running"}      \* JobState.active
Ended == {"finished", "failed"}

Listed == ToSet(order)
Waiting == {j \in Listed : state[j] = "queued"}

----------------------------------------------------------------------------
(* The list of jobs.  Everything here happens under _lock. *)

\* Where the jobs that ended stand in a list o whose jobs have states s.
EndedAt(o, s) == {i \in DOMAIN o : s[o[i]] \in Ended}
OldestEnded(o, s) == CHOOSE i \in EndedAt(o, s) : \A k \in EndedAt(o, s) : i <= k

\* Mutant: one ended job too many stays.
OverfullByTwo(o, s) == Cardinality(EndedAt(o, s)) > Keep + 1

\* _trim.  A caller of it adds at most one ended job, so the slice it drops
\* has at most one member; Retention is the invariant behind that.
Overfull(o, s) == Cardinality(EndedAt(o, s)) > Keep
Forgotten(o, s) == IF Overfull(o, s) THEN {o[OldestEnded(o, s)]} ELSE {}
Trimmed(o, s) == IF Overfull(o, s) THEN RemoveAt(o, OldestEnded(o, s)) ELSE o

\* The new list, states and keys of a critical section that ends in _trim().
Save(o, s, a) ==
  /\ order' = Trimmed(o, s)
  /\ state' = [j \in Jobs |-> IF j \in Forgotten(o, s) THEN "none" ELSE s[j]]
  /\ asked' = [j \in Jobs |-> IF j \in Forgotten(o, s) THEN NoKey ELSE a[j]]

\* uuid4: no id that anything still refers to is drawn.
Fresh == {j \in Jobs : /\ j \notin Listed \cup ToSet(queue)
                       /\ \A c \in Callers : hand[c] # j
                       /\ \A t \in Threads : cur[t] # j}

Init ==
  /\ registered = Projects
  /\ order = <<>>
  /\ state = [j \in Jobs |-> "none"]
  /\ asked = [j \in Jobs |-> NoKey]
  /\ queue = <<>>
  /\ worker = NoThread
  /\ pc = [c \in Callers |-> "idle"]
  /\ want = [c \in Callers |-> NoKey]
  /\ hand = [c \in Callers |-> NoJob]
  /\ todo = {}
  /\ at = [t \in Threads |-> "off"]
  /\ cur = [t \in Threads |-> NoJob]
  /\ restarts = 0

----------------------------------------------------------------------------
(* submit(project_id, request) on caller c. *)

\* A caller whose submit returned or raised is ready for the next call.
Leave(c) == /\ pc' = [pc EXCEPT ![c] = "idle"]
            /\ want' = [want EXCEPT ![c] = NoKey]

\* store.get_project finds the project: go on to take the lock.
Lookup(c, k) ==
  /\ pc[c] = "idle" /\ k[1] \in registered
  /\ pc' = [pc EXCEPT ![c] = "found"]
  /\ want' = [want EXCEPT ![c] = k]

\* POST /api/projects/{id}/run: any body, any project.  An unknown project is
\* a KeyError, which changes nothing.
Request(c) ==
  /\ c # Poller
  /\ \E k \in Keys : Lookup(c, k)
  /\ UNCHANGED <<registered, jobVars, queue, hand, todo, threadVars, restarts>>

\* Mutant: only a waiting job is returned, not a running one.
WaitingTwins(k) == {j \in Listed : state[j] = "queued" /\ asked[j] = k}

\* Mutant: a job that ended is returned as long as it is listed.
ListedTwins(k) == {j \in Listed : asked[j] = k}

Twins(k) == {j \in Listed : state[j] \in Active /\ asked[j] = k}

\* An identical job is queued or running: it is returned.
Coalesce(c) ==
  /\ pc[c] = "found" /\ Twins(want[c]) # {}
  /\ Leave(c)
  /\ UNCHANGED <<registered, jobVars, queue, hand, todo, threadVars, restarts>>

\* QueueFull.  In the poller's pass it ends the pass.
Refuse(c) ==
  /\ pc[c] = "found" /\ Twins(want[c]) = {}
  /\ Cardinality(Waiting) >= MaxQueued
  /\ Leave(c)
  /\ todo' = IF c = Poller THEN {} ELSE todo
  /\ UNCHANGED <<registered, jobVars, queue, hand, threadVars, restarts>>

\* Mutant: one job more than max_queued may wait.
AdmitOneMore(c) ==
  /\ pc[c] = "found" /\ Twins(want[c]) = {}
  /\ Cardinality(Waiting) <= MaxQueued
  /\ \E j \in Fresh :
       /\ Save(Append(order, j), [state EXCEPT ![j] = "queued"],
               [asked EXCEPT ![j] = want[c]])
       /\ hand' = [hand EXCEPT ![c] = j]
  /\ pc' = [pc EXCEPT ![c] = "listed"]
  /\ want' = [want EXCEPT ![c] = NoKey]
  /\ UNCHANGED <<registered, queue, todo, threadVars, restarts>>

\* The job is listed, and the lock released.
Admit(c) ==
  /\ pc[c] = "found" /\ Twins(want[c]) = {}
  /\ Cardinality(Waiting) < MaxQueued
  /\ \E j \in Fresh :
       /\ Save(Append(order, j), [state EXCEPT ![j] = "queued"],
               [asked EXCEPT ![j] = want[c]])
       /\ hand' = [hand EXCEPT ![c] = j]
  /\ pc' = [pc EXCEPT ![c] = "listed"]
  /\ want' = [want EXCEPT ![c] = NoKey]
  /\ UNCHANGED <<registered, queue, todo, threadVars, restarts>>

\* _queue.put(job.id)
Put(c) ==
  /\ pc[c] = "listed"
  /\ queue' = Append(queue, hand[c])
  /\ hand' = [hand EXCEPT ![c] = NoJob]
  /\ pc' = [pc EXCEPT ![c] = "put"]
  /\ UNCHANGED <<registered, jobVars, want, todo, threadVars, restarts>>

\* _ensure_worker: start a thread unless there is a live one; submit returns.
EnsureWorker(c) ==
  /\ pc[c] = "put"
  /\ IF worker # NoThread THEN UNCHANGED threadVars
     ELSE \E t \in Threads : /\ at[t] = "off"
                             /\ worker' = t
                             /\ at' = [at EXCEPT ![t] = "get"]
                             /\ UNCHANGED cur
  /\ Leave(c)
  /\ UNCHANGED <<registered, jobVars, queue, hand, todo, restarts>>

----------------------------------------------------------------------------
(* poll_forever and run_due_all. *)

\* A new pass over the enabled projects.
PollPass ==
  /\ pc[Poller] = "idle" /\ todo = {}
  /\ todo' = registered
  /\ UNCHANGED <<registered, jobVars, queue, pc, want, hand, threadVars, restarts>>

\* The pass calls submit for its next project.  One that was deleted since the
\* pass began is a KeyError, which ends the pass.
PollNext ==
  /\ pc[Poller] = "idle"
  /\ \E p \in todo :
       /\ \A q \in todo : p <= q
       /\ \/ /\ Lookup(Poller, <<p, DefaultRequest>>)
             /\ todo' = todo \ {p}
          \/ /\ p \notin registered
             /\ todo' = {}
             /\ UNCHANGED <<pc, want>>
  /\ UNCHANGED <<registered, jobVars, queue, hand, threadVars, restarts>>

----------------------------------------------------------------------------
(* The worker thread. *)

\* Mutant: the job is looked at and left on the queue.
TakePeeks(t) ==
  /\ at[t] = "get" /\ queue # <<>>
  /\ cur' = [cur EXCEPT ![t] = Head(queue)]
  /\ at' = [at EXCEPT ![t] = "took"]
  /\ UNCHANGED <<registered, jobVars, queue, callerVars, worker, restarts>>

\* _queue.get()
Take(t) ==
  /\ at[t] = "get" /\ queue # <<>>
  /\ cur' = [cur EXCEPT ![t] = Head(queue)]
  /\ queue' = Tail(queue)
  /\ at' = [at EXCEPT ![t] = "took"]
  /\ UNCHANGED <<registered, jobVars, callerVars, worker, restarts>>

\* The first critical section of _execute: skip a job that is not waiting.
Begin(t) ==
  /\ at[t] = "took"
  /\ IF state[cur[t]] = "queued"
     THEN /\ state' = [state EXCEPT ![cur[t]] = "running"]
          /\ at' = [at EXCEPT ![t] = "run"]
          /\ UNCHANGED cur
     ELSE /\ at' = [at EXCEPT ![t] = "get"]
          /\ cur' = [cur EXCEPT ![t] = NoJob]
          /\ UNCHANGED state
  /\ UNCHANGED <<registered, order, asked, queue, callerVars, worker, restarts>>

\* Mutant: a run that raises ends the worker thread, and nobody notices.
EndKillsWorker(t) ==
  /\ at[t] = "run"
  /\ \E s \in Ended :
       /\ Save(order, [state EXCEPT ![cur[t]] = s], asked)
       /\ at' = [at EXCEPT ![t] = IF s = "failed" THEN "off" ELSE "get"]
  /\ cur' = [cur EXCEPT ![t] = NoJob]
  /\ UNCHANGED <<registered, queue, callerVars, worker, restarts>>

\* runner.run returned or raised: the last critical section of _execute.
End(t) ==
  /\ at[t] = "run"
  /\ \E s \in Ended : Save(order, [state EXCEPT ![cur[t]] = s], asked)
  /\ at' = [at EXCEPT ![t] = "get"]
  /\ cur' = [cur EXCEPT ![t] = NoJob]
  /\ UNCHANGED <<registered, queue, callerVars, worker, restarts>>

----------------------------------------------------------------------------
(* The environment. *)

\* DELETE /api/projects/{id}: no queue state is looked at.
DeleteProject ==
  /\ \E p \in registered : registered' = registered \ {p}
  /\ UNCHANGED <<jobVars, queue, callerVars, threadVars, restarts>>

\* The process dies and is started again: only the store survives.
Restart ==
  /\ restarts < MaxRestarts
  /\ restarts' = restarts + 1
  /\ order' = <<>> /\ queue' = <<>> /\ todo' = {} /\ worker' = NoThread
  /\ state' = [j \in Jobs |-> "none"] /\ asked' = [j \in Jobs |-> NoKey]
  /\ pc' = [c \in Callers |-> "idle"] /\ want' = [c \in Callers |-> NoKey]
  /\ hand' = [c \in Callers |-> NoJob]
  /\ at' = [t \in Threads |-> "off"] /\ cur' = [t \in Threads |-> NoJob]
  /\ UNCHANGED registered

Submit(c) == Request(c) \/ Coalesce(c) \/ Refuse(c) \/ Admit(c) \/ Put(c) \/ EnsureWorker(c)
Poll == PollPass \/ PollNext
Work(t) == Take(t) \/ Begin(t) \/ End(t)

Next == \/ \E c \in Callers : Submit(c)
        \/ Poll
        \/ \E t \in Threads : Work(t)
        \/ DeleteProject
        \/ Restart

Spec == Init /\ [][Next]_vars

\* No thread stops in the middle of a call, the poller's timer fires again and
\* again, and every run ends (each vendor call has a timeout).
Fairness ==
  /\ \A c \in Callers : WF_vars(Coalesce(c) \/ Refuse(c) \/ Admit(c) \/ Put(c) \/ EnsureWorker(c))
  /\ WF_vars(Poll)
  /\ \A t \in Threads : WF_vars(Work(t))

FairSpec == Spec /\ Fairness

----------------------------------------------------------------------------
(* Properties. *)

TypeOK ==
  /\ registered \subseteq Projects /\ todo \subseteq Projects
  /\ order \in Seq(Jobs) /\ queue \in Seq(Jobs)
  /\ state \in [Jobs -> States]
  /\ asked \in [Jobs -> Keys \cup {NoKey}]
  /\ worker \in Threads \cup {NoThread}
  /\ pc \in [Callers -> {"idle", "found", "listed", "put"}]
  /\ want \in [Callers -> Keys \cup {NoKey}]
  /\ hand \in [Callers -> Jobs \cup {NoJob}]
  /\ at \in [Threads -> {"off", "get", "took", "run"}]
  /\ cur \in [Threads -> Jobs \cup {NoJob}]
  /\ restarts \in 0..MaxRestarts

\* "An identical request already queued or running is returned instead"
\* (submit's docstring): two active jobs never ask for the same thing, however
\* the poller and the page interleave.
NoTwins == \A i, j \in Listed :
  state[i] \in Active /\ state[j] \in Active /\ asked[i] = asked[j] => i = j

\* "two runs never compete for the ledger, the SQLite file or vendor rate
\* buckets": one job runs at a time, and it is the one the worker holds.
OneRun == \A i, j \in Listed :
  /\ state[i] = "running" /\ state[j] = "running" => i = j
  /\ state[i] = "running" => worker # NoThread /\ at[worker] = "run" /\ cur[worker] = i

\* The places a job id can be on its way to the worker.
Holders(j) == {<<"caller", c>> : c \in {c \in Callers : hand[c] = j}}
  \cup {<<"queue", i>> : i \in {i \in DOMAIN queue : queue[i] = j}}
  \cup {<<"thread", t>> : t \in {t \in Threads : cur[t] = j /\ at[t] = "took"}}

\* Although put happens outside the lock, no waiting job is lost and none is
\* delivered twice: it is on its way to the worker in exactly one place, and
\* nothing but waiting jobs is on its way.
Delivery == \A j \in Jobs :
  Cardinality(Holders(j)) = IF j \in Waiting THEN 1 ELSE 0

\* The list never holds more than Keep ended jobs, nor more waiting ones than
\* MaxQueued, and it has exactly the jobs that exist, each once.
Retention ==
  /\ Cardinality(EndedAt(order, state)) <= Keep
  /\ Cardinality(Waiting) <= MaxQueued
  /\ Cardinality(Listed) = Len(order)
  /\ Listed = {j \in Jobs : state[j] # "none"}

\* A job that waits is started (the process not being restarted).
WaitingJobStarts == \A j \in Jobs : state[j] = "queued" ~> state[j] # "queued"

\* "Queue a due-work run for every enabled project": a project that stays in
\* the store runs again and again.
Executes(p, r) == \E j \in Listed : state[j] = "running" /\ asked[j] = <<p, r>>
EveryProjectRuns == \A p \in Projects : []<>(p \notin registered \/ Executes(p, DefaultRequest))

----------------------------------------------------------------------------
(* What the queue promises. *)

RunningJobs == {j \in Listed : state[j] = "running"}

\* The runs that wait, and the one that runs.
Pending == {asked[j] : j \in Waiting}
Current == IF RunningJobs = {} THEN NoKey ELSE asked[CHOOSE j \in RunningJobs : TRUE]

Promise == INSTANCE RunQueue WITH
  Runs <- Keys, NoRun <- NoKey, Capacity <- MaxQueued,
  waiting <- Pending, running <- Current

\* jobs.py, whatever its locks, threads and lists: the queue implements RunQueue.
KeepsPromise == Promise!Spec
=============================================================================
