------------------------------- MODULE Reports -------------------------------
(***************************************************************************)
(* PDF reports: reporting/worker.py and reporting/store.py under the       *)
(* handlers of control_plane/report_routes.py.                             *)
(*                                                                         *)
(* A handler on the event loop inserts a row and puts its id on a queue in *)
(* memory; one thread builds the PDF, writing the row at every stage; an   *)
(* owner deletes reports at any moment; a restart forgets the queue and    *)
(* purges the files of old reports before it serves.                       *)
(***************************************************************************)
EXTENDS Integers, Sequences, FiniteSets

CONSTANTS
  Reports,      \* ids of rows
  NoReport,
  Limit,        \* _QUEUE_LIMIT
  MaxRestarts   \* bound on restarts

ASSUME ConstantsAssumption ==
  /\ NoReport \notin Reports
  /\ Limit \in Nat \ {0} /\ MaxRestarts \in Nat

VARIABLES
  rows,         \* report_runs: state, file_name and purged_at of each id
  disk,         \* the reports whose PDF is on the volume
  waiting,      \* the worker's queue.Queue
  worker,       \* its thread and the record it holds
  api,          \* the event loop: the handler, or the purge of the start-up
  broken,       \* what was refused, or broken off: by a crash, a failing
                \* statement, or a deletion while the worker was at it
  restarts

vars == <<rows, disk, waiting, worker, api, broken, restarts>>

NoRow == [state |-> "none", file |-> FALSE, purged |-> FALSE]
NoThread == [at |-> "none", report |-> NoReport, file |-> FALSE]
Idle == [at |-> "idle", report |-> NoReport, file |-> FALSE]
Serving == [at |-> "serving", report |-> NoReport, file |-> FALSE, old |-> {}]

Init ==
  /\ rows = [r \in Reports |-> NoRow]
  /\ disk = {} /\ waiting = <<>>
  /\ worker = NoThread /\ api = Serving
  /\ broken = {} /\ restarts = 0

Exists(r) == rows[r].state \notin {"none", "deleted"}

----------------------------------------------------------------------------
(* The handlers. *)

\* create_report inserts the row first.
Create(r) ==
  /\ api.at = "serving" /\ rows[r].state = "none"
  /\ rows' = [rows EXCEPT ![r].state = "queued"]
  /\ api' = [api EXCEPT !.at = "created", !.report = r]
  /\ UNCHANGED <<disk, waiting, worker, broken, restarts>>

\* submit: put, and start the thread if there is none.
Submit ==
  /\ api.at = "created" /\ Len(waiting) < Limit
  /\ waiting' = Append(waiting, api.report)
  /\ worker' = IF worker.at = "none" THEN Idle ELSE worker
  /\ api' = Serving
  /\ UNCHANGED <<rows, disk, broken, restarts>>

\* QueueFull: the answer is 429, the row stays.
Refuse ==
  /\ api.at = "created" /\ Len(waiting) >= Limit
  /\ broken' = broken \cup {api.report}
  /\ api' = Serving
  /\ UNCHANGED <<rows, disk, waiting, worker, restarts>>

\* delete reads the row, unlinks the file the row names, deletes the row.
ReadToDelete(r) ==
  /\ api.at = "serving" /\ Exists(r)
  /\ api' = [api EXCEPT !.at = "delete", !.report = r, !.file = rows[r].file]
  /\ UNCHANGED <<rows, disk, waiting, worker, broken, restarts>>

Unlink ==
  /\ api.at = "delete"
  /\ disk' = IF api.file THEN disk \ {api.report} ELSE disk
  /\ api' = [api EXCEPT !.at = "unlinked"]
  /\ UNCHANGED <<rows, waiting, worker, broken, restarts>>

Delete ==
  /\ api.at = "unlinked"
  /\ rows' = [rows EXCEPT ![api.report].state = "deleted"]
  /\ broken' = IF worker.report = api.report \/ rows[api.report].file # api.file
               THEN broken \cup {api.report} ELSE broken
  /\ api' = Serving
  /\ UNCHANGED <<disk, waiting, worker, restarts>>

----------------------------------------------------------------------------
(* The worker.  It holds one record and writes all of it back. *)

\* _serve: an id whose row is gone, or not waiting any more, is passed over.
Take ==
  /\ worker.at = "idle" /\ waiting # <<>>
  /\ waiting' = Tail(waiting)
  /\ worker' = IF rows[Head(waiting)].state = "queued"
               THEN [worker EXCEPT !.at = "start", !.report = Head(waiting)] ELSE worker
  /\ UNCHANGED <<rows, disk, api, broken, restarts>>

\* Mutant: INSERT OR REPLACE.
SaveAnyway(state) ==
  rows' = [rows EXCEPT ![worker.report] = [state |-> state, file |-> worker.file, purged |-> FALSE]]

\* save: an UPDATE, of no row if there is none.
Save(state) ==
  rows' = IF Exists(worker.report)
          THEN [rows EXCEPT ![worker.report] =
                  [state |-> state, file |-> worker.file, purged |-> FALSE]]
          ELSE rows

Start ==
  /\ worker.at = "start"
  /\ Save("running")
  /\ worker' = [worker EXCEPT !.at = "build"]
  /\ UNCHANGED <<disk, waiting, api, broken, restarts>>

\* _build, up to write_pdf, which names the file in the record too.
Write ==
  /\ worker.at = "build"
  /\ disk' = disk \cup {worker.report}
  /\ worker' = [worker EXCEPT !.at = "written", !.file = TRUE]
  /\ UNCHANGED <<rows, waiting, api, broken, restarts>>

SaveFile ==
  /\ worker.at = "written"
  /\ Save("running")
  /\ worker' = [worker EXCEPT !.at = "mail"]
  /\ UNCHANGED <<disk, waiting, api, broken, restarts>>

\* _deliver: sent, not asked for, or failed with the report none the worse.
Mail ==
  /\ worker.at = "mail"
  /\ worker' = [worker EXCEPT !.at = "done"]
  /\ UNCHANGED <<rows, disk, waiting, api, broken, restarts>>

\* Mutant: what _build raises ends the thread.
FailEndsThread ==
  /\ worker.at \in {"build", "written", "mail"}
  /\ worker' = NoThread
  /\ UNCHANGED <<rows, disk, waiting, api, broken, restarts>>

\* What _build raises is caught, before or after the file is written.
Fail ==
  /\ worker.at \in {"build", "written", "mail"}
  /\ worker' = [worker EXCEPT !.at = "failed"]
  /\ UNCHANGED <<rows, disk, waiting, api, broken, restarts>>

\* Mutant: a failed report forgets the file it wrote.
FinishForgets ==
  /\ worker.at \in {"done", "failed"}
  /\ rows' = IF Exists(worker.report)
             THEN [rows EXCEPT ![worker.report] =
                     [state |-> worker.at, file |-> worker.at = "done", purged |-> FALSE]]
             ELSE rows
  /\ worker' = Idle
  /\ UNCHANGED <<disk, waiting, api, broken, restarts>>

Finish ==
  /\ worker.at \in {"done", "failed"}
  /\ Save(worker.at)
  /\ worker' = Idle
  /\ UNCHANGED <<disk, waiting, api, broken, restarts>>

\* The first or the last save raises: _serve logs it and goes on.
StatementFails ==
  /\ worker.at \in {"start", "done", "failed"}
  /\ broken' = broken \cup {worker.report}
  /\ worker' = Idle
  /\ UNCHANGED <<rows, disk, waiting, api, restarts>>

----------------------------------------------------------------------------
(* A restart. *)

Kept(r) == rows[r].file /\ ~ rows[r].purged /\ Exists(r)

\* The process dies, and another begins to purge what is older than the
\* retention: any of the reports that have a file.
Restart ==
  /\ restarts < MaxRestarts
  /\ restarts' = restarts + 1
  /\ waiting' = <<>> /\ worker' = NoThread
  /\ broken' = broken \cup {r \in Reports : \/ rows[r].state \in {"queued", "running"}
                                            \/ r \in {worker.report, api.report}}
  /\ \E old \in SUBSET {r \in Reports : Kept(r)} :
       api' = [Serving EXCEPT !.at = "boot", !.old = old]
  /\ UNCHANGED <<rows, disk>>

\* purge unlinks a file, then marks its row.
PurgeFile ==
  /\ api.at = "boot"
  /\ \E r \in api.old :
       /\ disk' = disk \ {r}
       /\ api' = [api EXCEPT !.at = "purge", !.report = r, !.old = api.old \ {r}]
  /\ UNCHANGED <<rows, waiting, worker, broken, restarts>>

PurgeRow ==
  /\ api.at = "purge"
  /\ rows' = [rows EXCEPT ![api.report].purged = TRUE]
  /\ api' = [api EXCEPT !.at = "boot", !.report = NoReport]
  /\ UNCHANGED <<disk, waiting, worker, broken, restarts>>

Boot ==
  /\ api.at = "boot" /\ api.old = {}
  /\ api' = Serving
  /\ UNCHANGED <<rows, disk, waiting, worker, broken, restarts>>

----------------------------------------------------------------------------

EventLoop == Submit \/ Refuse \/ Unlink \/ Delete \/ PurgeFile \/ PurgeRow \/ Boot
Generate == Start \/ Write \/ SaveFile \/ Mail \/ Fail \/ Finish \/ StatementFails

Next ==
  \/ \E r \in Reports : Create(r) \/ ReadToDelete(r)
  \/ EventLoop
  \/ Take \/ Generate
  \/ Restart

Spec == Init /\ [][Next]_vars

\* A handler runs to its end, and the thread goes on.
FairSpec == Spec /\ WF_vars(EventLoop) /\ WF_vars(Take \/ Generate)

----------------------------------------------------------------------------
(* Properties. *)

Rows == [state : {"none", "queued", "running", "done", "failed", "deleted"},
         file : BOOLEAN, purged : BOOLEAN]
Workers == [at : {"none", "idle", "start", "build", "written", "mail", "done", "failed"},
            report : Reports \cup {NoReport}, file : BOOLEAN]
Handlers == [at : {"serving", "created", "delete", "unlinked", "boot", "purge"},
             report : Reports \cup {NoReport}, file : BOOLEAN, old : SUBSET Reports]

\* Every variable has its type, and the queue is as long as its limit at most.
TypeOK ==
  /\ rows \in [Reports -> Rows]
  /\ disk \subseteq Reports /\ broken \subseteq Reports
  /\ waiting \in Seq(Reports) /\ Len(waiting) <= Limit
  /\ worker \in Workers /\ api \in Handlers
  /\ restarts \in 0..MaxRestarts

\* The volume and the table agree on every report that nothing broke off: one that
\* can be downloaded has its file until a handler is at it, and a file belongs to a
\* row that names it and can be purged by it (worker.py: write, then save).
FilesMatch ==
  \A r \in Reports \ broken :
    /\ rows[r].state = "done" /\ Kept(r) => r \in disk \/ api.report = r
    /\ r \in disk => Kept(r) \/ worker.report = r

\* A report that has ended stays as it ended until somebody deletes it, and a deleted
\* one never comes back, though the worker still saves it (store.py: save).
StaysEnded ==
  [][\A r \in Reports :
       /\ rows[r].state \in {"done", "failed"} => rows'[r].state \in {rows[r].state, "deleted"}
       /\ rows[r].state = "deleted" => rows'[r].state = "deleted"]_vars

\* Every report that was accepted ends, or is deleted, whatever the reports before it
\* did; only a crash or a failing statement leaves it (worker.py: "the worker keeps
\* serving the next report").
QueuedEnds ==
  \A r \in Reports :
    rows[r].state = "queued" ~> rows[r].state \in {"done", "failed", "deleted"} \/ r \in broken
=============================================================================
