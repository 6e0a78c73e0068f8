---------------------------- MODULE ReportsProofs ----------------------------
(***************************************************************************)
(* What holds of Reports for every set of reports, any limit of the queue  *)
(* and any number of restarts.                                             *)
(***************************************************************************)
EXTENDS Reports, Costs, FoldTheorems, TLAPS

\* Who holds a report; a process that starts has no thread yet.
HoldInv ==
  /\ worker.at \in {"none", "idle"} <=> worker.report = NoReport
  /\ worker.at \in {"none", "idle"} => ~ worker.file
  /\ api.at \in {"serving", "boot"} <=> api.report = NoReport
  /\ api.at \in {"boot", "purge"} => worker.at = "none"

\* The state of the report the worker holds: its own, unless it was deleted.
WorkInv ==
  \A r \in Reports : worker.report = r =>
    rows[r].state \in {IF worker.at = "start" THEN "queued" ELSE "running", "deleted"}

\* The file of a report while the worker is at it.
Worked(r) ==
  worker.report = r =>
    /\ rows[r].state # "deleted"
    /\ rows[r].file => worker.file
    /\ worker.at \in {"start", "build"} => ~ worker.file
    /\ worker.at \in {"written", "mail", "done"} => worker.file
    /\ r \in disk => worker.file
    /\ worker.file => r \in disk \/ (api.report = r /\ api.at = "unlinked")

\* The file of a report a handler is at.
Handled(r) ==
  api.report = r =>
    /\ api.at \in {"delete", "unlinked"} /\ api.file => rows[r].file
    /\ api.at = "unlinked" /\ api.file => r \notin disk
    /\ api.at = "purge" => r \notin disk

\* The row and the volume.
Agreed(r) ==
  /\ Kept(r) => r \in disk \/ (api.report = r /\ api.at \in {"unlinked", "purge"})
  /\ r \in disk => Kept(r) \/ worker.report = r
  /\ rows[r].state \in {"none", "queued"} => ~ rows[r].file

FileInv == \A r \in Reports \ broken : Worked(r) /\ Handled(r) /\ Agreed(r)

IInv == TypeOK /\ HoldInv /\ WorkInv /\ FileInv

----------------------------------------------------------------------------
(* What the steps do to the rows. *)

\* A row whose state or mark is written keeps the rest, and the others are kept.
LEMMA RowState ==
  ASSUME TypeOK, NEW r \in Reports, NEW s \in {"queued", "deleted"},
         rows' = [rows EXCEPT ![r].state = s]
  PROVE  /\ rows' \in [Reports -> Rows]
         /\ \A q \in Reports : q # r => rows'[q] = rows[q]
         /\ rows'[r].state = s /\ rows'[r].file = rows[r].file
         /\ rows'[r].purged = rows[r].purged
BY DEF TypeOK, Rows

LEMMA RowPurged ==
  ASSUME TypeOK, NEW r \in Reports, rows' = [rows EXCEPT ![r].purged = TRUE]
  PROVE  /\ rows' \in [Reports -> Rows]
         /\ \A q \in Reports : q # r => rows'[q] = rows[q]
         /\ rows'[r].state = rows[r].state /\ rows'[r].file = rows[r].file
         /\ rows'[r].purged
BY DEF TypeOK, Rows

\* save writes all of the row the worker holds, if it is there, and no other.
LEMMA SaveEffect ==
  ASSUME TypeOK, worker.report \in Reports,
         NEW s \in {"running", "done", "failed"}, Save(s)
  PROVE  LET r == worker.report
         IN /\ rows' \in [Reports -> Rows]
            /\ \A q \in Reports : q # r => rows'[q] = rows[q]
            /\ ~ Exists(r) => rows'[r] = rows[r]
            /\ Exists(r) => /\ rows'[r].state = s /\ rows'[r].file = worker.file
                            /\ rows'[r].purged = FALSE
BY DEF TypeOK, Rows, Workers, Save

----------------------------------------------------------------------------
(* The types. *)

LEMMA Constant ==
  /\ NoThread \in Workers /\ Idle \in Workers /\ Serving \in Handlers
  /\ NoThread.at = "none" /\ NoThread.report = NoReport /\ NoThread.file = FALSE
  /\ Idle.at = "idle" /\ Idle.report = NoReport /\ Idle.file = FALSE
  /\ Serving.at = "serving" /\ Serving.report = NoReport
BY DEF NoThread, Idle, Serving, Workers, Handlers

\* The worker or the handler has a report whenever it is at one.
LEMMA Held ==
  ASSUME TypeOK, HoldInv
  PROVE  /\ worker.at \notin {"none", "idle"} => worker.report \in Reports
         /\ api.at \notin {"serving", "boot"} => api.report \in Reports
BY DEF TypeOK, HoldInv, Workers, Handlers

\* The initial states have the types, and nothing is held.
LEMMA InitHolds ==
  ASSUME ConstantsAssumption, Init
  PROVE  IInv
<1>1. NoRow \in Rows /\ NoRow.state = "none" /\ ~ NoRow.file
  BY DEF NoRow, Rows
<1>2. TypeOK
  BY <1>1, Constant DEF Init, TypeOK, ConstantsAssumption
<1>3. HoldInv
  BY Constant DEF Init, HoldInv
<1>4. WorkInv /\ FileInv
  BY <1>1, Constant DEF Init, ConstantsAssumption, WorkInv, FileInv, Worked, Handled, Agreed, Kept
<1> QED BY <1>2, <1>3, <1>4 DEF IInv

\* A step of a handler, or of the purge, keeps the types and who holds what.
LEMMA LoopTypes ==
  ASSUME ConstantsAssumption, TypeOK, HoldInv,
         (\E r \in Reports : Create(r) \/ ReadToDelete(r)) \/ EventLoop
  PROVE  TypeOK' /\ HoldInv'
<1> USE Constant, Held
<1>1. ASSUME NEW r \in Reports, Create(r)
      PROVE  TypeOK' /\ HoldInv'
  <2>1. rows' \in [Reports -> Rows]
    BY <1>1, RowState DEF Create
  <2> QED BY <1>1, <2>1 DEF Create, TypeOK, HoldInv, Handlers, ConstantsAssumption
<1>2. ASSUME NEW r \in Reports, ReadToDelete(r)
      PROVE  TypeOK' /\ HoldInv'
  <2>1. rows[r].file \in BOOLEAN
    BY DEF TypeOK, Rows
  <2> QED BY <1>2, <2>1 DEF ReadToDelete, TypeOK, HoldInv, Handlers, ConstantsAssumption
<1>3. ASSUME Submit
      PROVE  TypeOK' /\ HoldInv'
  <2>1. waiting' \in Seq(Reports) /\ Len(waiting') <= Limit
    BY <1>3 DEF Submit, TypeOK, ConstantsAssumption
  <2> QED BY <1>3, <2>1 DEF Submit, TypeOK, HoldInv
<1>4. ASSUME Refuse
      PROVE  TypeOK' /\ HoldInv'
  BY <1>4 DEF Refuse, TypeOK, HoldInv
<1>5. ASSUME Unlink
      PROVE  TypeOK' /\ HoldInv'
  BY <1>5 DEF Unlink, TypeOK, HoldInv, Handlers
<1>6. ASSUME Delete
      PROVE  TypeOK' /\ HoldInv'
  <2>1. rows' \in [Reports -> Rows]
    BY <1>6, RowState DEF Delete
  <2> QED BY <1>6, <2>1 DEF Delete, TypeOK, HoldInv
<1>7. ASSUME PurgeFile
      PROVE  TypeOK' /\ HoldInv'
  <2>1. PICK r \in api.old :
          /\ disk' = disk \ {r}
          /\ api' = [api EXCEPT !.at = "purge", !.report = r, !.old = api.old \ {r}]
    BY <1>7 DEF PurgeFile
  <2>2. api.at = "boot" /\ UNCHANGED <<rows, waiting, worker, broken, restarts>>
    BY <1>7 DEF PurgeFile
  <2>3. r \in Reports /\ api.old \ {r} \in SUBSET Reports
    BY DEF TypeOK, Handlers
  <2>4. api' \in Handlers /\ api'.at = "purge" /\ api'.report = r
    BY <2>1, <2>3 DEF TypeOK, Handlers
  <2> QED BY <2>1, <2>2, <2>3, <2>4 DEF TypeOK, HoldInv, ConstantsAssumption
<1>8. ASSUME PurgeRow
      PROVE  TypeOK' /\ HoldInv'
  <2>1. rows' \in [Reports -> Rows]
    BY <1>8, RowPurged DEF PurgeRow
  <2> QED BY <1>8, <2>1 DEF PurgeRow, TypeOK, HoldInv, Handlers
<1>9. ASSUME Boot
      PROVE  TypeOK' /\ HoldInv'
  BY <1>9 DEF Boot, TypeOK, HoldInv
<1> QED BY <1>1, <1>2, <1>3, <1>4, <1>5, <1>6, <1>7, <1>8, <1>9 DEF EventLoop

\* A restart forgets the thread and the queue, and breaks off what was going on.
LEMMA RestartEffect ==
  ASSUME ConstantsAssumption, TypeOK, Restart
  PROVE  /\ waiting' = <<>> /\ worker' = NoThread /\ rows' = rows /\ disk' = disk
         /\ broken' \subseteq Reports /\ restarts' \in 0..MaxRestarts
         /\ \A r \in Reports \ broken' :
              /\ r \notin broken /\ rows[r].state \notin {"queued", "running"}
              /\ r # worker.report /\ r # api.report
         /\ api' \in Handlers /\ api'.at = "boot" /\ api'.report = NoReport
<1>1. waiting' = <<>> /\ worker' = NoThread /\ rows' = rows /\ disk' = disk
  BY Zenon DEF Restart
<1>2. restarts' = restarts + 1 /\ restarts < MaxRestarts
  BY Zenon DEF Restart
<1>3. restarts' \in 0..MaxRestarts
  BY <1>2 DEF TypeOK, ConstantsAssumption
<1>4. broken' = broken \cup {r \in Reports : \/ rows[r].state \in {"queued", "running"}
                                            \/ r \in {worker.report, api.report}}
  BY Zenon DEF Restart
<1>5. /\ broken' \subseteq Reports
      /\ \A r \in Reports \ broken' :
           /\ r \notin broken /\ rows[r].state \notin {"queued", "running"}
           /\ r # worker.report /\ r # api.report
  BY <1>4 DEF TypeOK
<1>6. PICK old \in SUBSET {r \in Reports : Kept(r)} :
        api' = [Serving EXCEPT !.at = "boot", !.old = old]
  BY Zenon DEF Restart
<1>7. api' \in Handlers /\ api'.at = "boot" /\ api'.report = NoReport
  <2>1. old \in SUBSET Reports
    OBVIOUS
  <2> QED BY <1>6, <2>1 DEF Handlers, Serving
<1> QED BY <1>1, <1>3, <1>5, <1>7

\* So does a step of the worker, and a restart.
LEMMA WorkTypes ==
  ASSUME ConstantsAssumption, TypeOK, HoldInv, Take \/ Generate \/ Restart
  PROVE  TypeOK' /\ HoldInv'
<1> USE Constant, Held
<1>1. ASSUME Take
      PROVE  TypeOK' /\ HoldInv'
  <2>1. waiting' \in Seq(Reports) /\ Len(waiting') <= Limit /\ Head(waiting) \in Reports
    BY <1>1 DEF Take, TypeOK, ConstantsAssumption
  <2>2. CASE worker' = worker
    BY <1>1, <2>1, <2>2 DEF Take, TypeOK, HoldInv
  <2> DEFINE taken == [worker EXCEPT !.at = "start", !.report = Head(waiting)]
  <2>3. CASE worker' = taken
    <3>1. worker' \in Workers /\ worker'.at = "start" /\ worker'.report = Head(waiting)
          /\ Head(waiting) # NoReport
      BY <2>1, <2>3 DEF TypeOK, Workers, ConstantsAssumption
    <3>2. UNCHANGED <<rows, disk, api, broken, restarts>> /\ worker.at = "idle"
      BY <1>1, Zenon DEF Take
    <3>3. TypeOK'
      BY <2>1, <3>1, <3>2 DEF TypeOK
    <3> QED BY <3>1, <3>2, <3>3 DEF HoldInv
  <2>4. worker' = worker \/ worker' = taken
    BY <1>1, Zenon DEF Take
  <2> HIDE DEF taken
  <2> QED BY <2>2, <2>3, <2>4
<1>2. ASSUME Start \/ SaveFile
      PROVE  TypeOK' /\ HoldInv'
  <2>1. rows' \in [Reports -> Rows]
    BY <1>2, SaveEffect DEF Start, SaveFile
  <2> QED BY <1>2, <2>1 DEF Start, SaveFile, TypeOK, HoldInv, Workers
<1>3. ASSUME Write \/ Mail \/ Fail
      PROVE  TypeOK' /\ HoldInv'
  BY <1>3 DEF Write, Mail, Fail, TypeOK, HoldInv, Workers
<1>4. ASSUME Finish
      PROVE  TypeOK' /\ HoldInv'
  <2>1. rows' \in [Reports -> Rows]
    BY <1>4, SaveEffect DEF Finish
  <2> QED BY <1>4, <2>1 DEF Finish, TypeOK, HoldInv
<1>5. ASSUME StatementFails
      PROVE  TypeOK' /\ HoldInv'
  BY <1>5 DEF StatementFails, TypeOK, HoldInv
<1>6. ASSUME Restart
      PROVE  TypeOK' /\ HoldInv'
  <2>1. waiting' \in Seq(Reports) /\ Len(waiting') <= Limit
    BY <1>6, RestartEffect DEF ConstantsAssumption
  <2>2. broken' \subseteq Reports /\ restarts' \in 0..MaxRestarts
    BY <1>6, RestartEffect DEF TypeOK
  <2>3. api' \in Handlers /\ api'.at = "boot" /\ api'.report = NoReport
        /\ disk' = disk /\ rows' = rows /\ worker' = NoThread
    BY <1>6, RestartEffect
  <2> QED BY <2>1, <2>2, <2>3 DEF TypeOK, HoldInv
<1> QED BY <1>1, <1>2, <1>3, <1>4, <1>5, <1>6 DEF Generate

----------------------------------------------------------------------------
(* The rows, the files, and who is at them. *)

\* A handler changes neither the worker's reports nor what the worker left.
LEMMA LoopHolds ==
  ASSUME ConstantsAssumption, IInv,
         (\E r \in Reports : Create(r) \/ ReadToDelete(r)) \/ EventLoop
  PROVE  WorkInv' /\ FileInv'
<1> USE Constant, Held DEF IInv
<1>1. ASSUME NEW q \in Reports, Create(q)
      PROVE  WorkInv' /\ FileInv'
  <2>1. /\ \A r \in Reports : r # q => rows'[r] = rows[r]
        /\ rows[q].state = "none" /\ rows'[q].state = "queued"
        /\ rows'[q].file = rows[q].file /\ rows'[q].purged = rows[q].purged
    BY <1>1, RowState DEF Create
  <2>2. api.at = "serving" /\ api'.at = "created" /\ UNCHANGED <<disk, worker, broken>>
    BY <1>1 DEF Create, TypeOK, Handlers
  <2>3. worker.report # q
    BY <2>1 DEF WorkInv
  <2> QED BY <2>1, <2>2, <2>3 DEF WorkInv, FileInv, Worked, Handled, Agreed, Kept, Exists, HoldInv
<1>2. ASSUME NEW q \in Reports, ReadToDelete(q)
      PROVE  WorkInv' /\ FileInv'
  <2>1. api.at = "serving" /\ api'.at = "delete" /\ api'.report = q /\ api'.file = rows[q].file
        /\ UNCHANGED <<rows, disk, worker, broken>>
    BY <1>2 DEF ReadToDelete, TypeOK, Handlers
  <2> QED BY <2>1 DEF WorkInv, FileInv, Worked, Handled, Agreed, Kept, Exists, HoldInv
<1>3. ASSUME Submit
      PROVE  WorkInv' /\ FileInv'
  <2>1. api.at = "created" /\ api' = Serving /\ UNCHANGED <<rows, disk, broken>>
        /\ worker' \in {worker, Idle} /\ (worker' = worker \/ worker.report = NoReport)
    BY <1>3 DEF Submit, HoldInv
  <2> QED BY <2>1 DEF WorkInv, FileInv, Worked, Handled, Agreed, Kept, Exists, HoldInv, ConstantsAssumption
<1>4. ASSUME Refuse
      PROVE  WorkInv' /\ FileInv'
  BY <1>4 DEF Refuse, WorkInv, FileInv, Worked, Handled, Agreed, Kept, Exists, HoldInv
<1>5. ASSUME Unlink
      PROVE  WorkInv' /\ FileInv'
  <2>1. api.at = "delete" /\ api'.at = "unlinked" /\ api'.report = api.report
        /\ api'.file = api.file /\ UNCHANGED <<rows, worker, broken>>
    BY <1>5 DEF Unlink, TypeOK, Handlers
  <2>2. disk' = IF api.file THEN disk \ {api.report} ELSE disk
    BY <1>5 DEF Unlink
  <2> QED BY <2>1, <2>2 DEF WorkInv, FileInv, Worked, Handled, Agreed, Kept, Exists, HoldInv
<1>6. ASSUME Delete
      PROVE  WorkInv' /\ FileInv'
  <2>1. /\ \A r \in Reports : r # api.report => rows'[r] = rows[r]
        /\ rows'[api.report].state = "deleted" /\ rows'[api.report].file = rows[api.report].file
        /\ api.at = "unlinked" /\ api' = Serving /\ UNCHANGED <<disk, worker>>
    BY <1>6, RowState DEF Delete
  <2>2. broken' = IF worker.report = api.report \/ rows[api.report].file # api.file
                  THEN broken \cup {api.report} ELSE broken
    BY <1>6 DEF Delete
  <2>3. WorkInv'
    BY <2>1 DEF WorkInv
  <2>4. ASSUME NEW r \in Reports \ broken', r = api.report
        PROVE  Worked(r)' /\ Handled(r)' /\ Agreed(r)'
    BY <2>1, <2>2, <2>4 DEF WorkInv, FileInv, Worked, Handled, Agreed, Kept, Exists, HoldInv
  <2>5. ASSUME NEW r \in Reports \ broken', r # api.report
        PROVE  Worked(r)' /\ Handled(r)' /\ Agreed(r)'
    <3>1. r \in Reports \ broken /\ rows'[r] = rows[r]
      BY <2>1, <2>2, <2>5
    <3>2. Worked(r) /\ Handled(r) /\ Agreed(r)
      BY <3>1 DEF FileInv
    <3>3. api'.report = NoReport /\ r # NoReport
      BY <2>1, <3>1 DEF ConstantsAssumption
    <3>4. Handled(r)'
      BY <3>3 DEF Handled
    <3>5. Worked(r)'
      BY <2>1, <2>5, <3>1, <3>2 DEF Worked
    <3>6. Kept(r)' <=> Kept(r)
      BY <3>1 DEF Kept, Exists
    <3>7. Agreed(r)'
      BY <2>1, <2>5, <3>1, <3>2, <3>6 DEF Agreed
    <3> QED BY <3>4, <3>5, <3>7
  <2> QED BY <2>3, <2>4, <2>5 DEF FileInv
<1>7. ASSUME PurgeFile
      PROVE  WorkInv' /\ FileInv'
  <2>1. PICK q \in api.old :
          /\ disk' = disk \ {q}
          /\ api' = [api EXCEPT !.at = "purge", !.report = q, !.old = api.old \ {q}]
    BY <1>7 DEF PurgeFile
  <2>2. api.at = "boot" /\ UNCHANGED <<rows, worker, broken>>
        /\ api'.at = "purge" /\ api'.report = q
    BY <1>7, <2>1 DEF PurgeFile, TypeOK, Handlers
  <2>3. worker.report = NoReport
    BY <2>2 DEF HoldInv
  <2> QED BY <2>1, <2>2, <2>3 DEF WorkInv, FileInv, Worked, Handled, Agreed, Kept, Exists, HoldInv, ConstantsAssumption
<1>8. ASSUME PurgeRow
      PROVE  WorkInv' /\ FileInv'
  <2>1. /\ \A r \in Reports : r # api.report => rows'[r] = rows[r]
        /\ rows'[api.report].state = rows[api.report].state /\ rows'[api.report].purged
        /\ rows'[api.report].file = rows[api.report].file
        /\ UNCHANGED <<disk, worker, broken>>
    BY <1>8, RowPurged DEF PurgeRow
  <2>2. api.at = "purge" /\ api'.at = "boot" /\ api'.report = NoReport
    BY <1>8 DEF PurgeRow, TypeOK, Handlers
  <2>3. worker.report = NoReport
    BY <2>2 DEF HoldInv
  <2>4. ASSUME NEW r \in Reports \ broken'
        PROVE  Worked(r)' /\ Handled(r)' /\ Agreed(r)'
    <3>1. Worked(r) /\ Handled(r) /\ Agreed(r)
      BY <2>1 DEF FileInv
    <3>2. worker'.report # r /\ api'.report # r
      BY <2>1, <2>2, <2>3 DEF ConstantsAssumption
    <3>3. Worked(r)' /\ Handled(r)'
      BY <3>2 DEF Worked, Handled
    <3>4. Agreed(r)'
      <4>1. CASE r = api.report
        <5>1. ~ Kept(r)' /\ r \notin disk'
          BY <2>1, <2>2, <3>1, <4>1 DEF Handled, Kept
        <5> QED BY <2>1, <3>1, <4>1, <5>1 DEF Agreed
      <4>2. CASE r # api.report
        <5>1. rows'[r] = rows[r]
          BY <2>1, <4>2
        <5>2. Kept(r)' <=> Kept(r)
          BY <5>1 DEF Kept, Exists
        <5> QED BY <2>1, <2>3, <3>1, <3>2, <4>2, <5>1, <5>2 DEF Agreed
      <4> QED BY <4>1, <4>2
    <3> QED BY <3>3, <3>4
  <2>5. WorkInv'
    BY <2>1, <2>3 DEF WorkInv, ConstantsAssumption
  <2> QED BY <2>4, <2>5 DEF FileInv
<1>9. ASSUME Boot
      PROVE  WorkInv' /\ FileInv'
  BY <1>9 DEF Boot, WorkInv, FileInv, Worked, Handled, Agreed, Kept, Exists, HoldInv, ConstantsAssumption
<1> QED BY <1>1, <1>2, <1>3, <1>4, <1>5, <1>6, <1>7, <1>8, <1>9 DEF EventLoop

\* A report the worker is not at, and that keeps its row and its file, is left as it was.
LEMMA OthersKept ==
  ASSUME IInv, NEW r \in Reports \ broken, rows'[r] = rows[r], r \in disk <=> r \in disk',
         worker.report # r, worker'.report # r, api' = api
  PROVE  Worked(r)' /\ Handled(r)' /\ Agreed(r)'
<1>1. Worked(r) /\ Handled(r) /\ Agreed(r)
  BY DEF IInv, FileInv
<1>2. Kept(r)' <=> Kept(r)
  BY DEF Kept, Exists
<1>3. Worked(r)' /\ Handled(r)'
  BY <1>1 DEF Worked, Handled
<1>4. Agreed(r)'
  BY <1>1, <1>2 DEF Agreed
<1> QED BY <1>3, <1>4

\* The worker takes up a report that waits, and neither its row nor its file changes.
LEMMA TakeHolds ==
  ASSUME ConstantsAssumption, IInv, Take
  PROVE  WorkInv' /\ FileInv'
<1> USE DEF IInv
<1> DEFINE q == Head(waiting)
<1>1. q \in Reports
  BY DEF Take, TypeOK
<1>2. UNCHANGED <<rows, disk, api, broken>> /\ worker.at = "idle"
  BY Zenon DEF Take
<1>3. worker.report = NoReport /\ ~ worker.file
  BY <1>2 DEF HoldInv
<1>4. CASE worker' = worker
  BY <1>2, <1>4 DEF WorkInv, FileInv, Worked, Handled, Agreed, Kept, Exists
<1>5. CASE rows[q].state = "queued" /\ worker' = [worker EXCEPT !.at = "start", !.report = q]
  <2>1. worker'.at = "start" /\ worker'.report = q /\ worker'.file = worker.file
    BY <1>5 DEF TypeOK, Workers
  <2> HIDE DEF q
  <2>2. WorkInv'
    BY <1>2, <1>5, <2>1 DEF WorkInv
  <2>3. ASSUME NEW r \in Reports \ broken', r = q
        PROVE  Worked(r)' /\ Handled(r)' /\ Agreed(r)'
    <3>1. Worked(r) /\ Handled(r) /\ Agreed(r) /\ worker.report # r
      BY <1>2, <1>3 DEF FileInv, ConstantsAssumption
    <3>2. ~ rows[r].file /\ r \notin disk /\ ~ Kept(r)
      BY <1>5, <2>3, <3>1 DEF Agreed, Kept
    <3>3. Worked(r)'
      BY <1>2, <1>3, <1>5, <2>1, <2>3, <3>2 DEF Worked
    <3>4. Handled(r)' /\ Agreed(r)'
      BY <1>2, <3>1, <3>2 DEF Handled, Agreed, Kept
    <3> QED BY <3>3, <3>4
  <2>4. ASSUME NEW r \in Reports \ broken', r # q
        PROVE  Worked(r)' /\ Handled(r)' /\ Agreed(r)'
    BY <1>2, <1>3, <2>1, <2>4, OthersKept DEF ConstantsAssumption
  <2> QED BY <2>2, <2>3, <2>4 DEF FileInv
<1>6. worker' = worker
      \/ (rows[q].state = "queued" /\ worker' = [worker EXCEPT !.at = "start", !.report = q])
  BY Zenon DEF Take
<1> HIDE DEF q
<1> QED BY <1>4, <1>5, <1>6

\* What the worker holds when it saves, and what it has saved.
LEMMA SaveHolds ==
  ASSUME ConstantsAssumption, IInv, worker.report \in Reports,
         Save("running"), UNCHANGED <<disk, api, broken>>,
         worker'.file = worker.file, worker'.report = worker.report,
         \/ worker.at = "start" /\ worker'.at = "build"
         \/ worker.at = "written" /\ worker'.at = "mail"
  PROVE  WorkInv' /\ FileInv'
<1> USE DEF IInv
<1> DEFINE q == worker.report
<1>1. /\ \A r \in Reports : r # q => rows'[r] = rows[r]
      /\ ~ Exists(q) => rows'[q] = rows[q]
      /\ Exists(q) => /\ rows'[q].state = "running" /\ rows'[q].file = worker.file
                      /\ rows'[q].purged = FALSE
  BY SaveEffect
<1>2. rows[q].state \in {"queued", "running", "deleted"}
  BY DEF WorkInv
<1>3. WorkInv'
  BY <1>1, <1>2 DEF WorkInv, Exists
<1>4. ASSUME NEW r \in Reports \ broken', r = q
      PROVE  Worked(r)' /\ Handled(r)' /\ Agreed(r)'
  <2>1. Worked(r) /\ Handled(r) /\ Agreed(r)
    BY DEF FileInv
  <2>2. Exists(q)
    BY <1>2, <1>4, <2>1 DEF Worked, Exists
  <2>3. rows'[r].state = "running" /\ (rows'[r].file <=> worker.file) /\ ~ rows'[r].purged
    BY <1>1, <1>4, <2>2
  <2>4. Worked(r)'
    BY <1>4, <2>1, <2>3 DEF Worked
  <2>5. Handled(r)'
    BY <1>4, <2>1, <2>3 DEF Worked, Handled
  <2>6. Agreed(r)'
    BY <1>4, <2>1, <2>3 DEF Worked, Agreed, Kept
  <2> QED BY <2>4, <2>5, <2>6
<1>5. ASSUME NEW r \in Reports \ broken', r # q
      PROVE  Worked(r)' /\ Handled(r)' /\ Agreed(r)'
  BY <1>1, <1>5, OthersKept
<1> QED BY <1>3, <1>4, <1>5 DEF FileInv

\* The last save, of what became of the report.
LEMMA FinishHolds ==
  ASSUME ConstantsAssumption, IInv, Finish
  PROVE  WorkInv' /\ FileInv'
<1> USE DEF IInv
<1> DEFINE q == worker.report
<1>1. q \in Reports /\ worker.at \in {"done", "failed"} /\ UNCHANGED <<disk, api, broken>>
      /\ worker'.report = NoReport
  BY Held, Constant DEF Finish
<1>2. /\ \A r \in Reports : r # q => rows'[r] = rows[r]
      /\ ~ Exists(q) => rows'[q] = rows[q]
      /\ Exists(q) => /\ rows'[q].state = worker.at /\ rows'[q].file = worker.file
                      /\ rows'[q].purged = FALSE
  BY <1>1, SaveEffect DEF Finish
<1>3. rows[q].state \in {"running", "deleted"}
  BY <1>1 DEF WorkInv
<1>4. WorkInv'
  BY <1>1 DEF WorkInv, ConstantsAssumption
<1>5. ASSUME NEW r \in Reports \ broken', r = q
      PROVE  Worked(r)' /\ Handled(r)' /\ Agreed(r)'
  <2>1. Worked(r) /\ Handled(r) /\ Agreed(r)
    BY <1>1 DEF FileInv
  <2>2. Exists(q)
    BY <1>3, <1>5, <2>1 DEF Worked, Exists
  <2>3. rows'[r].state \in {"done", "failed"} /\ (rows'[r].file <=> worker.file)
        /\ ~ rows'[r].purged
    BY <1>1, <1>2, <1>5, <2>2
  <2>4. Worked(r)'
    BY <1>1 DEF Worked, ConstantsAssumption
  <2>5. Handled(r)'
    BY <1>1, <1>5, <2>1, <2>3 DEF Worked, Handled
  <2>6. Agreed(r)'
    BY <1>1, <1>5, <2>1, <2>3 DEF Worked, Agreed, Kept, Exists
  <2> QED BY <2>4, <2>5, <2>6
<1>6. ASSUME NEW r \in Reports \ broken', r # q
      PROVE  Worked(r)' /\ Handled(r)' /\ Agreed(r)'
  BY <1>1, <1>2, <1>6, OthersKept DEF ConstantsAssumption
<1> QED BY <1>4, <1>5, <1>6 DEF FileInv

\* So does every other step of the worker, and a restart.
LEMMA WorkHolds ==
  ASSUME ConstantsAssumption, IInv, Take \/ Generate \/ Restart
  PROVE  WorkInv' /\ FileInv'
<1> USE Held, Constant DEF IInv
<1>1. CASE Take
  BY <1>1, TakeHolds
<1>2. ASSUME Start \/ SaveFile
      PROVE  WorkInv' /\ FileInv'
  <2>1. worker'.file = worker.file /\ worker'.report = worker.report
    BY <1>2 DEF Start, SaveFile, TypeOK, Workers
  <2>2. \/ worker.at = "start" /\ worker'.at = "build"
        \/ worker.at = "written" /\ worker'.at = "mail"
    BY <1>2 DEF Start, SaveFile, TypeOK, Workers
  <2> QED BY <1>2, <2>1, <2>2, SaveHolds DEF Start, SaveFile
<1>3. ASSUME Write
      PROVE  WorkInv' /\ FileInv'
  <2>1. worker.at = "build" /\ worker'.at = "written" /\ worker'.report = worker.report
        /\ worker'.file /\ disk' = disk \cup {worker.report} /\ UNCHANGED <<rows, api, broken>>
    BY <1>3 DEF Write, TypeOK, Workers
  <2>2. WorkInv'
    BY <2>1 DEF WorkInv
  <2>3. ASSUME NEW r \in Reports \ broken', r = worker.report
        PROVE  Worked(r)' /\ Handled(r)' /\ Agreed(r)'
    <3>1. Worked(r) /\ Handled(r) /\ Agreed(r)
      BY <2>1 DEF FileInv
    <3>2. ~ rows[r].file /\ ~ Kept(r) /\ ~ Kept(r)'
      BY <2>1, <2>3, <3>1 DEF Worked, Kept
    <3>3. api.at # "purge"
      BY <2>1 DEF HoldInv
    <3> QED BY <2>1, <2>3, <3>1, <3>2, <3>3 DEF Worked, Handled, Agreed
  <2>4. ASSUME NEW r \in Reports \ broken', r # worker.report
        PROVE  Worked(r)' /\ Handled(r)' /\ Agreed(r)'
    BY <2>1, <2>4, OthersKept
  <2> QED BY <2>2, <2>3, <2>4 DEF FileInv
<1>4. ASSUME Mail \/ Fail
      PROVE  WorkInv' /\ FileInv'
  <2>1. worker'.report = worker.report /\ worker'.file = worker.file
        /\ UNCHANGED <<rows, disk, api, broken>>
    BY <1>4 DEF Mail, Fail, TypeOK, Workers
  <2>2. \/ worker.at = "mail" /\ worker'.at = "done"
        \/ worker.at \in {"build", "written", "mail"} /\ worker'.at = "failed"
    BY <1>4 DEF Mail, Fail, TypeOK, Workers
  <2>3. WorkInv'
    BY <2>1, <2>2 DEF WorkInv
  <2>4. FileInv'
    BY <2>1, <2>2 DEF FileInv, Worked, Handled, Agreed, Kept, Exists
  <2> QED BY <2>3, <2>4
<1>5. CASE Finish
  BY <1>5, FinishHolds
<1>6. ASSUME StatementFails
      PROVE  WorkInv' /\ FileInv'
  <2>1. broken' = broken \cup {worker.report} /\ worker'.report = NoReport
        /\ UNCHANGED <<rows, disk, api>>
    BY <1>6 DEF StatementFails
  <2>2. WorkInv'
    BY <2>1 DEF WorkInv, ConstantsAssumption
  <2>3. ASSUME NEW r \in Reports \ broken'
        PROVE  Worked(r)' /\ Handled(r)' /\ Agreed(r)'
    BY <2>1, OthersKept DEF ConstantsAssumption
  <2> QED BY <2>2, <2>3 DEF FileInv
<1>7. ASSUME Restart
      PROVE  WorkInv' /\ FileInv'
  <2>1. WorkInv'
    BY <1>7, RestartEffect DEF WorkInv, ConstantsAssumption
  <2>2. ASSUME NEW r \in Reports \ broken'
        PROVE  Worked(r)' /\ Handled(r)' /\ Agreed(r)'
    <3>1. r \in Reports \ broken /\ r # worker.report /\ r # api.report
          /\ rows' = rows /\ disk' = disk /\ worker'.report = NoReport /\ api'.report = NoReport
      BY <1>7, RestartEffect
    <3>2. Agreed(r)
      BY <3>1 DEF FileInv
    <3>3. Worked(r)' /\ Handled(r)'
      BY <3>1 DEF Worked, Handled, ConstantsAssumption
    <3>4. Agreed(r)'
      BY <3>1, <3>2 DEF Agreed, Kept, Exists
    <3> QED BY <3>3, <3>4
  <2> QED BY <2>1, <2>2 DEF FileInv
<1> QED BY <1>1, <1>2, <1>3, <1>4, <1>5, <1>6, <1>7 DEF Generate

----------------------------------------------------------------------------
(* The theorems. *)

LEMMA Inductive ==
  ASSUME ConstantsAssumption, IInv, [Next]_vars
  PROVE  IInv'
<1>1. CASE UNCHANGED vars
  BY <1>1 DEF vars, IInv, TypeOK, HoldInv, WorkInv, FileInv, Worked, Handled, Agreed, Kept, Exists
<1>2. CASE (\E r \in Reports : Create(r) \/ ReadToDelete(r)) \/ EventLoop
  BY <1>2, LoopTypes, LoopHolds DEF IInv
<1>3. CASE Take \/ Generate \/ Restart
  BY <1>3, WorkTypes, WorkHolds DEF IInv
<1> QED BY <1>1, <1>2, <1>3 DEF Next

THEOREM Invariant == Spec => []IInv
<1>1. Init => IInv
  BY InitHolds, ConstantsAssumption
<1>2. IInv /\ [Next]_vars => IInv'
  BY Inductive, ConstantsAssumption
<1> QED BY <1>1, <1>2, PTL DEF Spec

\* The queue and everything around it has its type: no more than Limit reports wait.
THEOREM TypeCorrect == Spec => []TypeOK
<1>1. IInv => TypeOK
  BY DEF IInv
<1> QED BY <1>1, Invariant, PTL

\* The volume and the table agree on every report that nothing broke off.
THEOREM FilesMatchAlways == Spec => []FilesMatch
<1>1. IInv => FilesMatch
  BY DEF IInv, FileInv, Agreed, FilesMatch
<1> QED BY <1>1, Invariant, PTL

\* A step writes the row of a report that ended, or was deleted, only to delete it.
LEMMA EndedStays ==
  ASSUME ConstantsAssumption, IInv, [Next]_vars, NEW r \in Reports
  PROVE  /\ rows[r].state \in {"done", "failed"} => rows'[r].state \in {rows[r].state, "deleted"}
         /\ rows[r].state = "deleted" => rows'[r].state = "deleted"
<1> USE Held DEF IInv
<1>1. CASE rows' = rows
  BY <1>1
<1>2. ASSUME NEW q \in Reports, Create(q)
      PROVE  rows[r].state # "none" => rows'[r] = rows[r]
  <2>1. rows[q].state = "none" /\ \A p \in Reports : p # q => rows'[p] = rows[p]
    BY <1>2, RowState DEF Create
  <2> QED BY <2>1
<1>3. ASSUME Delete
      PROVE  rows'[r] = rows[r] \/ rows'[r].state = "deleted"
  BY <1>3, RowState DEF Delete
<1>4. ASSUME PurgeRow
      PROVE  rows'[r].state = rows[r].state
  BY <1>4, RowPurged DEF PurgeRow
<1>5. ASSUME Start \/ SaveFile \/ Finish
      PROVE  rows'[r] = rows[r] \/ rows[r].state \in {"queued", "running"}
  <2>1. worker.report \in Reports /\ \E s \in {"running", "done", "failed"} : Save(s)
    BY <1>5 DEF Start, SaveFile, Finish
  <2>2. PICK s \in {"running", "done", "failed"} : Save(s)
    BY <2>1
  <2>3. r # worker.report \/ ~ Exists(worker.report) => rows'[r] = rows[r]
    BY <2>1, <2>2, SaveEffect
  <2> QED BY <2>1, <2>3 DEF WorkInv, Exists
<1>6. \/ rows' = rows
      \/ \E q \in Reports : Create(q)
      \/ Delete \/ PurgeRow \/ Start \/ SaveFile \/ Finish
  BY DEF Next, EventLoop, Generate, vars, ReadToDelete, Submit, Refuse, Unlink, PurgeFile, Boot,
         Take, Write, Mail, Fail, StatementFails, Restart
<1> QED BY <1>1, <1>2, <1>3, <1>4, <1>5, <1>6

\* A report that has ended stays as it ended until it is deleted, and then stays away.
THEOREM StaysEndedAlways == Spec => StaysEnded
<1>1. IInv /\ [Next]_vars =>
        \A r \in Reports :
          /\ rows[r].state \in {"done", "failed"} => rows'[r].state \in {rows[r].state, "deleted"}
          /\ rows[r].state = "deleted" => rows'[r].state = "deleted"
  BY EndedStays, ConstantsAssumption
<1> QED BY <1>1, Invariant, PTL DEF Spec, StaysEnded

-----------------------------------------------------------------------------
(* The cost report. *)

\* What the ledger may hold: amounts are naturals, and NoCost is none.
Billed(c) ==
  /\ {c.estimated, c.units, c.searches, c.latency} \subseteq Nat
  /\ {c.reported, c.modelled} \subseteq Nat \cup {NoCost}
LedgerOf(N, ledger) == DOMAIN ledger = 1..N /\ \A i \in 1..N : Billed(ledger[i])

\* What the calls at some places cost: those that were answered.
Paid(ledger) == [i \in DOMAIN ledger |-> IF ledger[i].status = "ok" THEN ActualCost(ledger[i]) ELSE 0]
PaidFor(ledger, X) == SumFunctionOnSet(Paid(ledger), X)
Answered(ledger, X) == {i \in X : ledger[i].status = "ok"}

LEMMA PaidTyped ==
  ASSUME NEW N \in Nat, NEW ledger, LedgerOf(N, ledger), NoCost \notin Nat
  PROVE  /\ Paid(ledger) \in [1..N -> Int] /\ \A i \in 1..N : Paid(ledger)[i] \in Nat
         /\ \A X \in SUBSET (1..N) : PaidFor(ledger, X) \in Int
<1>1. \A i \in 1..N : ActualCost(ledger[i]) \in Nat
  BY DEF LedgerOf, Billed, ActualCost
<1>2. Paid(ledger) \in [1..N -> Int] /\ \A i \in 1..N : Paid(ledger)[i] \in Nat
  BY <1>1 DEF Paid, LedgerOf
<1>3. IsFiniteSet(1..N)
  BY FS_Interval
<1>4. \A X \in SUBSET (1..N) : PaidFor(ledger, X) \in Int
  BY <1>2, <1>3, SumTyped DEF PaidFor
<1> QED BY <1>2, <1>4

LEMMA OkOf ==
  ASSUME NEW N \in Nat, NEW ledger, NEW X \in SUBSET (1..N)
  PROVE  Ok(Entries(ledger, X)) = Entries(ledger, Answered(ledger, X))
<1> DEFINE s == Entries(ledger, X)
           J == {n \in DOMAIN s : s[n].status = "ok"}
<1>1. Ok(s) = Entries(s, J)
  BY Zenon DEF Ok, Those
<1>2. Filters(ledger, X, J, Answered(ledger, X))
  BY DEF Filters, Answered
<1>3. IsFiniteSet(X)
  BY PlacesOf
<1> HIDE DEF J
<1> QED BY <1>1, <1>2, <1>3, ThoseWithin

\* A sum over a list of entries is one over their places.
CostsOf(e, costs) == costs = [n \in DOMAIN e |-> ActualCost(e[n])]
LEMMA ListPaid ==
  ASSUME NEW N \in Nat, NEW ledger, LedgerOf(N, ledger), NoCost \notin Nat, NEW X \in SUBSET (1..N),
         NEW costs, CostsOf(Entries(ledger, Answered(ledger, X)), costs)
  PROVE  SumFunction(costs) = PaidFor(ledger, X)
<1> DEFINE Y == Answered(ledger, X)
           e == Entries(ledger, Y)
           f == Cut(Paid(ledger), Y)
           g == [n \in 1..Cardinality(Y) |-> f[InTurn(Y)[n]]]
<1>1. Y \in SUBSET X /\ Y \in SUBSET (1..N) /\ IsFiniteSet(X) /\ IsFiniteSet(Y) /\ Y \in SUBSET Int
  BY PlacesOf DEF Answered
<1>2. /\ DOMAIN e = 1..Cardinality(Y)
      /\ \A n \in 1..Cardinality(Y) : InTurn(Y)[n] \in Y /\ e[n] = ledger[InTurn(Y)[n]]
  BY <1>1, EntriesOf
<1>7. /\ f \in [Y -> Int] /\ \A i \in Y : f[i] = Paid(ledger)[i]
      /\ SumFunctionOnSet(f, Y) = SumFunctionOnSet(Paid(ledger), Y)
  <2> DEFINE D == 1..N
  <2>1. IsFiniteSet(D) /\ Paid(ledger) \in [D -> Int] /\ Y \in SUBSET D /\ Y \in SUBSET Y
    BY <1>1, PaidTyped, FS_Interval
  <2> HIDE DEF Y, D
  <2> QED BY <2>1, SumCut
<1> HIDE DEF f
<1>3. \A i \in Y : f[i] = ActualCost(ledger[i])
  BY <1>1, <1>7 DEF Answered, Paid, LedgerOf
<1>5. costs = g
  <2>1. \A n \in 1..Cardinality(Y) : ActualCost(e[n]) = f[InTurn(Y)[n]]
    BY <1>2, <1>3
  <2>2. costs = [n \in DOMAIN e |-> ActualCost(e[n])]
    BY DEF CostsOf
  <2> HIDE DEF e
  <2> QED BY <1>2, <2>1, <2>2
<1>6. SumFunction(g) = SumFunctionOnSet(g, 1..Cardinality(Y))
  <2>1. DOMAIN g = 1..Cardinality(Y)
    OBVIOUS
  <2> HIDE DEF g
  <2> QED BY <2>1 DEF SumFunction
<1>8. SumFunctionOnSet(g, 1..Cardinality(Y)) = SumFunctionOnSet(f, Y)
  <2> HIDE DEF Y
  <2> QED BY <1>1, <1>7, SumEntries
<1>10. SumFunctionOnSet(Paid(ledger), X) = SumFunctionOnSet(Paid(ledger), Y)
  <2> DEFINE D == 1..N
  <2>1. IsFiniteSet(D) /\ Paid(ledger) \in [D -> Int] /\ X \in SUBSET D
    BY FS_Interval, PaidTyped
  <2>2. \A i \in X \ Y : Paid(ledger)[i] = 0
    BY DEF Answered, Paid, LedgerOf
  <2> HIDE DEF Y, D
  <2>3. InParts(Paid(ledger), X, Y)
    BY <1>1, <2>1, SumPartial
  <2> QED BY <2>2, <2>3 DEF InParts
<1> HIDE DEF e, g, Y
<1> QED BY <1>5, <1>6, <1>7, <1>8, <1>10 DEF PaidFor

LEMMA ActualOf ==
  ASSUME NEW N \in Nat, NEW ledger, LedgerOf(N, ledger), NoCost \notin Nat, NEW X \in SUBSET (1..N)
  PROVE  Actual(Entries(ledger, X)) = PaidFor(ledger, X)
<1> DEFINE e == Entries(ledger, Answered(ledger, X))
           costs == [n \in DOMAIN e |-> ActualCost(e[n])]
<1>1. Ok(Entries(ledger, X)) = e
  BY OkOf
<1>2. CostsOf(e, costs)
  BY DEF CostsOf
<1>3. SumFunction(costs) = PaidFor(ledger, X)
  <2> HIDE DEF costs
  <2> QED BY <1>2, ListPaid
<1> HIDE DEF e
<1>4. Actual(Entries(ledger, X)) = SumFunction(costs)
  BY <1>1, Zenon DEF Actual, SumTo
<1> QED BY <1>3, <1>4

\* The caps' own query adds up the same figures.
LEMMA Coalesced ==
  ASSUME NEW c, Billed(c), NoCost \notin Nat
  PROVE  Coalesce(<<c.reported, c.modelled, c.estimated>>) = ActualCost(c)
<1> DEFINE s == <<c.reported, c.modelled, c.estimated>>
           K == {i \in DOMAIN s : s[i] # NoCost}
<1>1. /\ DOMAIN s = 1..3 /\ s[1] = c.reported /\ s[2] = c.modelled /\ s[3] = c.estimated
      /\ c.estimated # NoCost
  BY DEF Billed
<1> HIDE DEF s
<1>2. \A k \in K : (\A i \in K : k <= i) => Min(K) = k
  <2> SUFFICES ASSUME NEW k \in K, \A i \in K : k <= i PROVE Min(K) = k
    OBVIOUS
  <2>1. K \subseteq 1..3
    BY <1>1
  <2>2. Min(K) \in K /\ \A i \in K : Min(K) <= i
    <3> HIDE DEF K
    <3> QED BY DEF Min
  <2> QED BY <2>1, <2>2
<1>3. CASE c.reported # NoCost
  <2>1. 1 \in K /\ \A i \in K : 1 <= i
    BY <1>1, <1>3
  <2>2. Min(K) = 1
    BY <1>2, <2>1
  <2> HIDE DEF K
  <2> QED BY <1>1, <1>3, <2>2 DEF Coalesce, ActualCost, s, K
<1>4. CASE c.reported = NoCost /\ c.modelled # NoCost
  <2>1. 2 \in K /\ \A i \in K : 2 <= i
    BY <1>1, <1>4
  <2>2. Min(K) = 2
    BY <1>2, <2>1
  <2> HIDE DEF K
  <2> QED BY <1>1, <1>4, <2>2 DEF Coalesce, ActualCost, s, K
<1>5. CASE c.reported = NoCost /\ c.modelled = NoCost
  <2>1. 3 \in K /\ \A i \in K : 3 <= i
    BY <1>1, <1>5
  <2>2. Min(K) = 3
    BY <1>2, <2>1
  <2> HIDE DEF K
  <2> QED BY <1>1, <1>5, <2>2 DEF Coalesce, ActualCost, s, K
<1> QED BY <1>3, <1>4, <1>5

\* The places of a vendor's calls, of a run's, of a prompt's, and of what a report counts.
VendorAt(ledger, X, v) == {i \in X : ledger[i].vendor = v}
RunAt(ledger, X, r) == {i \in X : ledger[i].run = r}
PromptAt(ledger, X, p) == {i \in X : ledger[i].prompt = p}
CountedAt(ledger, since) == {i \in DOMAIN ledger : ledger[i].ts >= since /\ ledger[i].source # "demo"}
ReportAt(ledger, since, prompt) ==
  {i \in CountedAt(ledger, since) : prompt = Nowhere \/ ledger[i].prompt = prompt}
SharedAt(ledger, since, runs) ==
  {i \in CountedAt(ledger, since) : ledger[i].run \in runs /\ ledger[i].prompt = Nowhere}

LEMMA VendorList ==
  ASSUME NEW N \in Nat, NEW ledger, NEW X \in SUBSET (1..N), NEW v
  PROVE  OfVendor(Entries(ledger, X), v) = Entries(ledger, VendorAt(ledger, X, v))
<1> DEFINE s == Entries(ledger, X)
           J == {n \in DOMAIN s : s[n].vendor = v}
<1>1. OfVendor(s, v) = Entries(s, J)
  BY Zenon DEF OfVendor, Those
<1>2. Filters(ledger, X, J, VendorAt(ledger, X, v))
  BY DEF Filters, VendorAt
<1>3. IsFiniteSet(X)
  BY PlacesOf
<1> HIDE DEF J
<1> QED BY <1>1, <1>2, <1>3, ThoseWithin

LEMMA RunList ==
  ASSUME NEW N \in Nat, NEW ledger, NEW X \in SUBSET (1..N), NEW r
  PROVE  Those(Entries(ledger, X), LAMBDA c : c.run = r) = Entries(ledger, RunAt(ledger, X, r))
<1> DEFINE s == Entries(ledger, X)
           J == {n \in DOMAIN s : s[n].run = r}
<1>1. Those(s, LAMBDA c : c.run = r) = Entries(s, J)
  BY Zenon DEF Those
<1>2. Filters(ledger, X, J, RunAt(ledger, X, r))
  BY DEF Filters, RunAt
<1>3. IsFiniteSet(X)
  BY PlacesOf
<1> HIDE DEF J
<1> QED BY <1>1, <1>2, <1>3, ThoseWithin

LEMMA CallsList ==
  ASSUME NEW N \in Nat, NEW ledger, DOMAIN ledger = 1..N, NEW since, NEW runs, NEW prompt
  PROVE  Counted(Calls(ledger, since, runs, prompt), {"demo"})
         = Entries(ledger, {i \in CountedAt(ledger, since) :
             (runs = {} \/ ledger[i].run \in runs) /\ (prompt = Nowhere \/ ledger[i].prompt = prompt)})
<1> DEFINE X == {i \in DOMAIN ledger : ledger[i].ts >= since /\ (runs = {} \/ ledger[i].run \in runs)
                                         /\ (prompt = Nowhere \/ ledger[i].prompt = prompt)}
           Y == {i \in CountedAt(ledger, since) :
             (runs = {} \/ ledger[i].run \in runs) /\ (prompt = Nowhere \/ ledger[i].prompt = prompt)}
           s == Entries(ledger, X)
           J == {n \in DOMAIN s : s[n].source \notin {"demo"}}
<1>1. Calls(ledger, since, runs, prompt) = s
  BY Zenon DEF Calls, Those
<1>2. Counted(s, {"demo"}) = Entries(s, J)
  BY Zenon DEF Counted, Those
<1>3. X \in SUBSET (1..N)
  OBVIOUS
<1>4. Filters(ledger, X, J, Y)
  BY DEF Filters, CountedAt
<1> HIDE DEF X, Y, J
<1>5. Entries(s, J) = Entries(ledger, Y)
  <2>1. IsFiniteSet(X)
    BY <1>3, PlacesOf
  <2> QED BY <1>4, <2>1, ThoseWithin
<1> QED BY <1>1, <1>2, <1>5 DEF Y

\* The shared calls of some runs.
LEMMA SharedList ==
  ASSUME NEW N \in Nat, NEW ledger, DOMAIN ledger = 1..N, NEW since, NEW runs, NEW prompt
  PROVE  Shared(ledger, since, {"demo"}, runs, prompt)
         = Entries(ledger, IF prompt = Nowhere THEN {} ELSE SharedAt(ledger, since, runs))
<1>1. Entries(ledger, {}) = <<>>
  <2>1. Entries(ledger, {}) = [n \in 1..Cardinality({}) |-> ledger[InTurn({})[n]]]
    BY DEF Entries
  <2>2. 1..Cardinality({}) = {}
    BY FS_EmptySet
  <2>3. DOMAIN Entries(ledger, {}) = {}
    BY <2>1, <2>2
  <2>4. Entries(ledger, {}) = [n \in {} |-> 0]
    BY <2>1, <2>2, Zenon
  <2> QED BY <2>4
<1>2. CASE prompt = Nowhere
  BY <1>1, <1>2 DEF Shared
<1>3. CASE runs = {}
  <2>1. SharedAt(ledger, since, runs) = {}
    BY <1>3 DEF SharedAt
  <2> QED BY <1>1, <1>3, <2>1 DEF Shared
<1>4. CASE prompt # Nowhere /\ runs # {}
  <2> DEFINE X == {i \in CountedAt(ledger, since) :
               (runs = {} \/ ledger[i].run \in runs) /\ (Nowhere = Nowhere \/ ledger[i].prompt = Nowhere)}
             s == Entries(ledger, X)
             J == {n \in DOMAIN s : s[n].prompt = Nowhere}
  <2>1. Counted(Calls(ledger, since, runs, Nowhere), {"demo"}) = s
    BY CallsList
  <2>2. Those(s, LAMBDA c : c.prompt = Nowhere) = Entries(s, J)
    BY Zenon DEF Those
  <2>3. X \in SUBSET (1..N)
    BY DEF CountedAt
  <2>4. Filters(ledger, X, J, SharedAt(ledger, since, runs))
    BY <1>4, <2>3 DEF Filters, SharedAt
  <2>5. Shared(ledger, since, {"demo"}, runs, prompt) = Those(Counted(Calls(ledger, since, runs, Nowhere), {"demo"}), LAMBDA c : c.prompt = Nowhere)
    BY <1>4, Zenon DEF Shared
  <2> HIDE DEF X, J
  <2>6. Entries(s, J) = Entries(ledger, SharedAt(ledger, since, runs))
    <3>1. IsFiniteSet(X)
      BY <2>3, PlacesOf
    <3> QED BY <2>4, <3>1, ThoseWithin
  <2> HIDE DEF s
  <2>7. Shared(ledger, since, {"demo"}, runs, prompt) = Entries(ledger, SharedAt(ledger, since, runs))
    BY <2>1, <2>2, <2>5, <2>6, Zenon
  <2> QED BY <1>4, <2>7
<1> QED BY <1>2, <1>3, <1>4

\* What a report says, of the places it counts.
VendorsAt(ledger, X) == {ledger[i].vendor : i \in X}
RunsAt(ledger, X) == {ledger[i].run : i \in X} \ {Nowhere}
LEMMA EntriesMet ==
  ASSUME NEW N \in Nat, NEW ledger, NEW X \in SUBSET (1..N)
  PROVE  /\ VendorsIn(Entries(ledger, X)) = VendorsAt(ledger, X)
         /\ RunsIn(Entries(ledger, X)) = RunsAt(ledger, X)
<1> DEFINE s == Entries(ledger, X)
<1>1. IsFiniteSet(X) /\ X \in SUBSET Int
  BY PlacesOf
<1>0. /\ DOMAIN s = 1..Cardinality(X)
      /\ \A n \in 1..Cardinality(X) : InTurn(X)[n] \in X /\ s[n] = ledger[InTurn(X)[n]]
      /\ \A i \in X : \E n \in 1..Cardinality(X) : InTurn(X)[n] = i /\ s[n] = ledger[i]
  BY <1>1, EntriesOf
<1> HIDE DEF s
<1>2. /\ \A n \in DOMAIN s : \E i \in X : s[n] = ledger[i]
      /\ \A i \in X : \E n \in DOMAIN s : s[n] = ledger[i]
  BY <1>0
<1>3. VendorsIn(s) = VendorsAt(ledger, X) /\ RunsIn(s) = RunsAt(ledger, X)
  BY <1>2 DEF VendorsIn, RunsIn, VendorsAt, RunsAt
<1> QED BY <1>3 DEF s

LEMMA ReportOf ==
  ASSUME NEW N \in Nat, NEW ledger, LedgerOf(N, ledger), NoCost \notin Nat, NEW since, NEW prompt,
         NEW X, X = ReportAt(ledger, since, prompt), NEW R, R = CostReport(ledger, since, {"demo"}, prompt)
  PROVE  /\ X \in SUBSET (1..N)
         /\ R.actual = PaidFor(ledger, X)
         /\ R.vendors = {VendorCost(v, Entries(ledger, VendorAt(ledger, X, v))) : v \in VendorsAt(ledger, X)}
         /\ R.runs = {RunCost(r, Entries(ledger, X)) : r \in RunsAt(ledger, X)}
         /\ R.suggested = UNION {Recommend(v) : v \in R.vendors}
         /\ R.unattributedActual = PaidFor(ledger, IF prompt = Nowhere THEN {} ELSE SharedAt(ledger, since, RunsAt(ledger, X)))
<1> DEFINE s == Entries(ledger, X)
           Y == IF prompt = Nowhere THEN {} ELSE SharedAt(ledger, since, RunsAt(ledger, X))
           y == Entries(ledger, Y)
<1>1. DOMAIN ledger = 1..N
  BY DEF LedgerOf
<1>2. X \in SUBSET (1..N) /\ Y \in SUBSET (1..N)
  BY <1>1 DEF ReportAt, SharedAt, CountedAt
<1>3. Counted(Calls(ledger, since, {}, prompt), {"demo"}) = s
  <2>1. X = {i \in CountedAt(ledger, since) : ({} = {} \/ ledger[i].run \in {}) /\ (prompt = Nowhere \/ ledger[i].prompt = prompt)}
    BY DEF ReportAt
  <2> QED BY <1>1, <2>1, CallsList
<1>4. VendorsIn(s) = VendorsAt(ledger, X) /\ RunsIn(s) = RunsAt(ledger, X)
  BY <1>2, EntriesMet
<1>5. Shared(ledger, since, {"demo"}, RunsAt(ledger, X), prompt) = y
  BY <1>1, SharedList
<1>6. R = Summary(s, y)
  <2> HIDE DEF s, y
  <2> QED BY <1>3, <1>4, <1>5, Zenon DEF CostReport
<1>7. \A v : OfVendor(s, v) = Entries(ledger, VendorAt(ledger, X, v))
  BY <1>2, VendorList
<1>8. Actual(s) = PaidFor(ledger, X) /\ Actual(y) = PaidFor(ledger, Y)
  BY <1>2, ActualOf
<1> HIDE DEF s, y, Y
<1>9. /\ R.actual = Actual(s) /\ R.unattributedActual = Actual(y)
      /\ R.vendors = {VendorCost(v, OfVendor(s, v)) : v \in VendorsIn(s)}
      /\ R.runs = {RunCost(r, s) : r \in RunsIn(s)}
      /\ R.suggested = UNION {Recommend(v) : v \in R.vendors}
  BY <1>6 DEF Summary
<1>10. R.vendors = {VendorCost(v, Entries(ledger, VendorAt(ledger, X, v))) : v \in VendorsAt(ledger, X)}
  <2>1. \A v : VendorCost(v, OfVendor(s, v)) = VendorCost(v, Entries(ledger, VendorAt(ledger, X, v)))
    BY <1>7, Zenon
  <2> QED BY <1>4, <1>9, <2>1
<1>11. R.runs = {RunCost(r, s) : r \in RunsAt(ledger, X)}
  BY <1>4, <1>9, Zenon
<1> QED BY <1>2, <1>8, <1>9, <1>10, <1>11 DEF s, Y

VendorSays(v, calls) ==
  /\ VendorCost(v, calls).vendor = v
  /\ VendorCost(v, calls).actual = Actual(calls)
  /\ VendorCost(v, calls).ok = Len(Ok(calls))
  /\ VendorCost(v, calls).mean10
     = IF Ok(calls) = <<>> THEN 0 ELSE (20 * Actual(calls) + Len(Ok(calls))) \div (2 * Len(Ok(calls)))
  /\ VendorCost(v, calls).p50 = Percentile([i \in DOMAIN Ok(calls) |-> Ok(calls)[i].latency], 50)
  /\ VendorCost(v, calls).p95 = Percentile([i \in DOMAIN Ok(calls) |-> Ok(calls)[i].latency], 95)
LEMMA VendorFields ==
  ASSUME NEW v, NEW calls
  PROVE  VendorSays(v, calls)
BY DEF VendorCost, VendorSays

RunSays(ledger, X, r) ==
  /\ RunCost(r, Entries(ledger, X)).run = r
  /\ RunCost(r, Entries(ledger, X)).actual = PaidFor(ledger, RunAt(ledger, X, r))
  /\ RunCost(r, Entries(ledger, X)).by
     = [v \in VendorsAt(ledger, RunAt(ledger, X, r)) |-> PaidFor(ledger, VendorAt(ledger, RunAt(ledger, X, r), v))]
LEMMA RunFields ==
  ASSUME NEW N \in Nat, NEW ledger, LedgerOf(N, ledger), NoCost \notin Nat, NEW X \in SUBSET (1..N), NEW r
  PROVE  RunSays(ledger, X, r)
<1> DEFINE Y == RunAt(ledger, X, r)
           s == Entries(ledger, Y)
<1>1. Y \in SUBSET (1..N) /\ \A v : VendorAt(ledger, Y, v) \in SUBSET (1..N)
  BY DEF RunAt, VendorAt
<1>2. Those(Entries(ledger, X), LAMBDA c : c.run = r) = s
  BY RunList
<1>3. VendorsIn(s) = VendorsAt(ledger, Y)
  BY <1>1, EntriesMet
<1>4. Actual(s) = PaidFor(ledger, Y)
  BY <1>1, ActualOf
<1>5. \A v : Actual(OfVendor(s, v)) = PaidFor(ledger, VendorAt(ledger, Y, v))
  BY <1>1, VendorList, ActualOf
<1> HIDE DEF s
<1>6. RunCost(r, Entries(ledger, X)) = [run |-> r, calls |-> Len(s), actual |-> Actual(s),
                                        by |-> [v \in VendorsIn(s) |-> Actual(OfVendor(s, v))]]
  BY <1>2, Zenon DEF RunCost
<1>7. [v \in VendorsIn(s) |-> Actual(OfVendor(s, v))] = [v \in VendorsAt(ledger, Y) |-> PaidFor(ledger, VendorAt(ledger, Y, v))]
  BY <1>3, <1>5
<1> QED BY <1>4, <1>6, <1>7 DEF RunSays

\* What is paid at some places is paid at those of each key.
PaysByKey(ledger, X, key, G, h) == AllKeys(X, key, G) /\ h = [g \in G |-> PaidFor(ledger, {i \in X : key[i] = g})]
LEMMA PaidByKey ==
  ASSUME NEW N \in Nat, NEW ledger, LedgerOf(N, ledger), NoCost \notin Nat, NEW X \in SUBSET (1..N), NEW key,
         NEW G, NEW h, PaysByKey(ledger, X, key, G, h)
  PROVE  IsFiniteSet(G) /\ h \in [G -> Int] /\ SumFunctionOnSet(h, G) = PaidFor(ledger, X)
<1> DEFINE D == 1..N
<1>1. IsFiniteSet(D) /\ Paid(ledger) \in [D -> Int] /\ X \in SUBSET D
  BY FS_Interval, PaidTyped
<1>2. SumsByKey(Paid(ledger), X, key, G, h)
  BY DEF PaidFor, SumsByKey, PaysByKey
<1> HIDE DEF D
<1>3. SameSum(Paid(ledger), X, h, G)
  BY <1>1, <1>2, SumByKey
<1> QED BY <1>3 DEF PaidFor, SameSum

LEMMA PaidInParts ==
  ASSUME NEW N \in Nat, NEW ledger, LedgerOf(N, ledger), NoCost \notin Nat, NEW X \in SUBSET (1..N), NEW Y \in SUBSET X
  PROVE  /\ PaidFor(ledger, X) \in Int /\ PaidFor(ledger, Y) \in Int /\ PaidFor(ledger, X \ Y) \in Int
         /\ PaidFor(ledger, X) = PaidFor(ledger, Y) + PaidFor(ledger, X \ Y)
         /\ PaidFor(ledger, Y) <= PaidFor(ledger, X)
<1> DEFINE D == 1..N
<1>1. IsFiniteSet(D) /\ Paid(ledger) \in [D -> Int] /\ X \in SUBSET D /\ \A i \in X \ Y : Paid(ledger)[i] \in Nat
  BY FS_Interval, PaidTyped
<1>2. Y \in SUBSET D /\ X \ Y \in SUBSET D
  OBVIOUS
<1>3. \A Z \in SUBSET D : PaidFor(ledger, Z) \in Int
  BY PaidTyped
<1> HIDE DEF D
<1>4. InParts(Paid(ledger), X, Y)
  BY <1>1, SumPartial
<1> QED BY <1>1, <1>2, <1>3, <1>4 DEF InParts, PaidFor

\* The rows of a report, one for each key, have cost what their calls have.
BilledRows(ledger, Z, key, M, b, S) ==
  /\ AllKeys(Z, key, M) /\ b \in [M -> S] /\ \A x \in S : \E g \in M : b[g] = x
  /\ \A g, k \in M : b[g] = b[k] => g = k
  /\ \A g \in M : b[g].actual = PaidFor(ledger, {i \in Z : key[i] = g})
LEMMA RowsSum ==
  ASSUME NEW N \in Nat, NEW ledger, LedgerOf(N, ledger), NoCost \notin Nat, NEW Z \in SUBSET (1..N),
         NEW key, NEW M, NEW b, NEW S, BilledRows(ledger, Z, key, M, b, S)
  PROVE  SumOver(S, LAMBDA r : r.actual) = PaidFor(ledger, Z)
<1> DEFINE h == [g \in M |-> PaidFor(ledger, {i \in Z : key[i] = g})]
           f == [x \in S |-> x.actual]
<1>1. /\ b \in [M -> S] /\ \A x \in S : \E g \in M : b[g] = x
      /\ \A g, k \in M : b[g] = b[k] => g = k
      /\ \A g \in M : b[g].actual = h[g]
      /\ PaysByKey(ledger, Z, key, M, h)
  BY DEF BilledRows, PaysByKey
<1>2. f = [x \in S |-> x.actual]
  OBVIOUS
<1> HIDE DEF h, f
<1>3. IsFiniteSet(M) /\ h \in [M -> Int] /\ SumFunctionOnSet(h, M) = PaidFor(ledger, Z)
  BY <1>1, PaidByKey
<1>6. IsFiniteSet(S)
  <2>1. AllKeys(M, b, S)
    BY <1>1 DEF AllKeys
  <2> QED BY <1>3, <2>1, ValuesFinite
<1>7. f \in [S -> Int] /\ \A g \in M : h[g] = f[b[g]]
  <2>1. \A g \in M : b[g].actual \in Int
    BY <1>1, <1>3
  <2>2. \A x \in S : x.actual \in Int
    BY <1>1, <2>1
  <2> QED BY <1>1, <1>2, <2>2
<1>8. SumOver(S, LAMBDA r : r.actual) = SumFunctionOnSet(f, S)
  <2>1. DOMAIN f = S /\ SumOver(S, LAMBDA r : r.actual) = SumFunction(f)
    BY DEF SumOver, f
  <2> QED BY <2>1 DEF SumFunction
<1>9. Renames(S, f, M, h, b)
  BY <1>1, <1>7 DEF Renames
<1>10. SumFunctionOnSet(h, M) = SumFunctionOnSet(f, S)
  BY <1>3, <1>6, <1>7, <1>9, SumRenamed
<1> QED BY <1>3, <1>8, <1>10

LEMMA RunsSum ==
  ASSUME NEW N \in Nat, NEW ledger, LedgerOf(N, ledger), NoCost \notin Nat, NEW X \in SUBSET (1..N),
         NEW M \in SUBSET RunsAt(ledger, X), NEW S, S = {RunCost(r, Entries(ledger, X)) : r \in M}
  PROVE  SumOver(S, LAMBDA r : r.actual) = PaidFor(ledger, {i \in X : ledger[i].run \in M})
<1> DEFINE Z == {i \in X : ledger[i].run \in M}
           key == [i \in Z |-> ledger[i].run]
           b == [r \in M |-> RunCost(r, Entries(ledger, X))]
<1>1. Z \in SUBSET (1..N) /\ AllKeys(Z, key, M)
  BY DEF RunsAt, AllKeys
<1>2. \A r \in M : {i \in Z : key[i] = r} = RunAt(ledger, X, r)
  BY DEF RunAt
<1>3. b \in [M -> S] /\ \A x \in S : \E r \in M : b[r] = x
  OBVIOUS
<1>4. \A r \in M : b[r].run = r /\ b[r].actual = PaidFor(ledger, RunAt(ledger, X, r))
  <2> SUFFICES ASSUME NEW r \in M PROVE b[r].run = r /\ b[r].actual = PaidFor(ledger, RunAt(ledger, X, r))
    OBVIOUS
  <2>1. b[r] = RunCost(r, Entries(ledger, X))
    OBVIOUS
  <2> HIDE DEF b
  <2>2. RunSays(ledger, X, r)
    BY RunFields
  <2> QED BY <2>1, <2>2 DEF RunSays
<1> HIDE DEF Z, key, b
<1>5. \A r \in M : b[r].actual = PaidFor(ledger, {i \in Z : key[i] = r})
  BY <1>2, <1>4
<1>6. BilledRows(ledger, Z, key, M, b, S)
  BY <1>1, <1>3, <1>4, <1>5 DEF BilledRows
<1>7. SumOver(S, LAMBDA r : r.actual) = PaidFor(ledger, Z)
  BY <1>1, <1>6, RowsSum
<1> QED BY <1>7 DEF Z

LEMMA VendorsSum ==
  ASSUME NEW N \in Nat, NEW ledger, LedgerOf(N, ledger), NoCost \notin Nat, NEW X \in SUBSET (1..N),
         NEW S, S = {VendorCost(v, Entries(ledger, VendorAt(ledger, X, v))) : v \in VendorsAt(ledger, X)}
  PROVE  SumOver(S, LAMBDA v : v.actual) = PaidFor(ledger, X)
<1> DEFINE M == VendorsAt(ledger, X)
           key == [i \in X |-> ledger[i].vendor]
           b == [v \in M |-> VendorCost(v, Entries(ledger, VendorAt(ledger, X, v)))]
<1>1. AllKeys(X, key, M)
  BY DEF VendorsAt, AllKeys
<1>2. \A v : VendorAt(ledger, X, v) \in SUBSET (1..N)
  BY DEF VendorAt
<1>3. b \in [M -> S] /\ \A x \in S : \E v \in M : b[v] = x
  OBVIOUS
<1>4. \A v \in M : b[v].vendor = v /\ b[v].actual = PaidFor(ledger, VendorAt(ledger, X, v))
  <2> SUFFICES ASSUME NEW v \in M PROVE b[v].vendor = v /\ b[v].actual = PaidFor(ledger, VendorAt(ledger, X, v))
    OBVIOUS
  <2>1. b[v] = VendorCost(v, Entries(ledger, VendorAt(ledger, X, v)))
    OBVIOUS
  <2> HIDE DEF b
  <2>2. Actual(Entries(ledger, VendorAt(ledger, X, v))) = PaidFor(ledger, VendorAt(ledger, X, v))
    BY <1>2, ActualOf
  <2> DEFINE e == Entries(ledger, VendorAt(ledger, X, v))
  <2> HIDE DEF e
  <2>3. VendorSays(v, e)
    BY VendorFields
  <2> QED BY <2>1, <2>2, <2>3 DEF e, VendorSays
<1>5. \A v \in M : {i \in X : key[i] = v} = VendorAt(ledger, X, v)
  BY DEF VendorAt
<1> HIDE DEF key, M, b
<1>6. \A v \in M : b[v].actual = PaidFor(ledger, {i \in X : key[i] = v})
  BY <1>4, <1>5
<1>7. BilledRows(ledger, X, key, M, b, S)
  BY <1>1, <1>3, <1>4, <1>6 DEF BilledRows
<1> QED BY <1>7, RowsSum

LEMMA CapsSum ==
  ASSUME NEW N \in Nat, NEW ledger, LedgerOf(N, ledger), NoCost \notin Nat, NEW since
  PROVE  SpentSince(ledger, since) = PaidFor(ledger, CountedAt(ledger, since))
<1> DEFINE X == CountedAt(ledger, since)
           Y == {i \in DOMAIN ledger : ledger[i].status = "ok" /\ ledger[i].ts >= since /\ ledger[i].source # "demo"}
           e == Entries(ledger, Y)
           costs == [n \in DOMAIN e |-> Coalesce(<<e[n].reported, e[n].modelled, e[n].estimated>>)]
<1>1. X \in SUBSET (1..N) /\ Y = Answered(ledger, X) /\ Y \in SUBSET (1..N)
  BY DEF CountedAt, Answered, LedgerOf
<1>2. SpentSince(ledger, since) = SumFunction(costs)
  BY Zenon DEF SpentSince, Those, SumTo
<1>3. CostsOf(e, costs)
  <2>1. IsFiniteSet(Y) /\ Y \in SUBSET Int
    BY <1>1, PlacesOf
  <2>2. \A n \in DOMAIN e : e[n] \in {ledger[i] : i \in Y}
    <3> HIDE DEF Y
    <3>1. DOMAIN e = 1..Cardinality(Y) /\ \A n \in 1..Cardinality(Y) : InTurn(Y)[n] \in Y /\ e[n] = ledger[InTurn(Y)[n]]
      BY <2>1, EntriesOf
    <3> HIDE DEF e
    <3> QED BY <3>1
  <2> HIDE DEF e
  <2>3. \A n \in DOMAIN e : Billed(e[n])
    BY <1>1, <2>2 DEF LedgerOf
  <2>4. \A n \in DOMAIN e : Coalesce(<<e[n].reported, e[n].modelled, e[n].estimated>>) = ActualCost(e[n])
    BY <2>3, Coalesced
  <2> QED BY <2>4 DEF CostsOf
<1> HIDE DEF costs, Y
<1> QED BY <1>1, <1>2, <1>3, ListPaid

\* A share rounded up covers what it is a share of.
LEMMA UpToCovers ==
  ASSUME NEW a \in Nat, NEW b \in Nat, b > 0
  PROVE  UpTo(a, b) \in Nat /\ UpTo(a, b) * b >= a /\ (a > 0 => UpTo(a, b) > 0)
<1>1. \A x \in Nat, y \in Nat : y > 0 => (x \div y) \in Nat /\ (x \div y) * y <= x /\ x < ((x \div y) + 1) * y
  OBVIOUS
<1> DEFINE q == (a + b - 1) \div b
<1>2. q \in Nat /\ a + b - 1 < (q + 1) * b
  <2>1. a + b - 1 \in Nat
    OBVIOUS
  <2> QED BY <1>1, <2>1
<1>4. (q + 1) * b = q * b + b
  BY <1>2
<1> HIDE DEF q
<1>5. q * b >= a
  <2>1. q * b \in Int
    BY <1>2
  <2> DEFINE qb == q * b
  <2> HIDE DEF qb
  <2>2. a + b - 1 < qb + b /\ qb \in Int
    BY <1>2, <1>4, <2>1 DEF qb
  <2> QED BY <2>2 DEF qb
<1>6. q = 0 => q * b = 0
  BY <1>2
<1> QED BY <1>2, <1>5, <1>6 DEF UpTo, q

LEMMA LenOf ==
  ASSUME NEW n \in Nat, NEW s, DOMAIN s = 1..n
  PROVE Len(s) = n
OBVIOUS
LEMMA PercentilesRise ==
  ASSUME NEW n \in Nat, NEW values \in [1..n -> Int], NEW p \in 1..100, NEW q \in 1..100, p <= q
  PROVE  Percentile(values, p) <= Percentile(values, q)
<1> DEFINE t == Sorted(values, <)
           k(x) == Max({1, UpTo(x * n, 100)})
<1>1. Len(values) = n
  BY LenOf
<1>2. CASE values = <<>>
  BY <1>2 DEF Percentile
<1>3. CASE values # <<>>
  <2>1. n > 0
    <3> SUFFICES ASSUME n = 0 PROVE FALSE
      OBVIOUS
    <3>1. values = <<>>
      OBVIOUS
    <3> QED BY <1>3, <3>1
  <2>2. \A m \in Int : Max({1, m}) = IF m > 1 THEN m ELSE 1
    BY DEF Max
  <2>3. \A x \in 1..100 : UpTo(x * n, 100) \in Int /\ UpTo(x * n, 100) <= n
    <3> SUFFICES ASSUME NEW x \in 1..100 PROVE UpTo(x * n, 100) \in Int /\ UpTo(x * n, 100) <= n
      OBVIOUS
    <3>1. x * n \in Int /\ x * n <= 100 * n
      OBVIOUS
    <3> DEFINE y == x * n
    <3> HIDE DEF y
    <3>2. y \in Int /\ y <= 100 * n
      BY <3>1 DEF y
    <3>3. (y + 100 - 1) \div 100 \in Int /\ (y + 100 - 1) \div 100 <= n
      BY <3>2
    <3> QED BY <3>3 DEF UpTo, y
  <2>4. UpTo(p * n, 100) <= UpTo(q * n, 100)
    <3>1. p * n \in Int /\ q * n \in Int /\ p * n <= q * n
      OBVIOUS
    <3> DEFINE y == p * n
               z == q * n
    <3> HIDE DEF y, z
    <3>2. y \in Int /\ z \in Int /\ y <= z
      BY <3>1 DEF y, z
    <3>3. (y + 100 - 1) \div 100 <= (z + 100 - 1) \div 100
      BY <3>2
    <3> QED BY <3>3 DEF UpTo, y, z
  <2>5. k(p) \in 1..n /\ k(q) \in 1..n /\ k(p) <= k(q)
    <3> DEFINE x == UpTo(p * n, 100)
               y == UpTo(q * n, 100)
    <3>1. k(p) = (IF x > 1 THEN x ELSE 1) /\ k(q) = (IF y > 1 THEN y ELSE 1) /\ x \in Int /\ y \in Int /\ x <= n /\ y <= n /\ x <= y
      BY <2>2, <2>3, <2>4
    <3> HIDE DEF x, y, k
    <3> QED BY <2>1, <3>1
  <2>6. \A i, j \in 1..n : i <= j => t[i] <= t[j]
    BY SortedUp
  <2>7. Percentile(values, p) = t[k(p)] /\ Percentile(values, q) = t[k(q)]
    BY <1>1, <1>3, Zenon DEF Percentile
  <2> HIDE DEF t, k
  <2> QED BY <2>5, <2>6, <2>7
<1> QED BY <1>2, <1>3

LEMMA MeanCovers ==
  ASSUME NEW total \in Nat, NEW k \in Nat, k > 0, NEW m, m = (20 * total + k) \div (2 * k), m > 0
  PROVE  UpTo(115 * m * 1, 100 * 10) * k >= total
<1> DEFINE u == UpTo(115 * m * 1, 100 * 10)
           mk == m * k
           uk == u * k
<1>1. m \in Nat /\ 20 * total + k < (m + 1) * (2 * k)
  <2>1. \A x \in Nat, y \in Nat : y > 0 => (x \div y) \in Nat /\ x < ((x \div y) + 1) * y
    OBVIOUS
  <2>2. 20 * total + k \in Nat /\ 2 * k \in Nat /\ 2 * k > 0
    OBVIOUS
  <2> QED BY <2>1, <2>2
<1>2. (m + 1) * (2 * k) = 2 * mk + 2 * k /\ mk \in Nat
  BY <1>1
<1>3. u \in Nat /\ u * 1000 >= 115 * m /\ u > 0
  <2>1. 115 * m * 1 \in Nat /\ 115 * m * 1 > 0 /\ 115 * m * 1 = 115 * m /\ 100 * 10 = 1000 /\ 1000 \in Nat
    BY <1>1
  <2>2. UpTo(115 * m, 1000) \in Nat /\ UpTo(115 * m, 1000) * 1000 >= 115 * m /\ UpTo(115 * m, 1000) > 0
    BY <2>1, UpToCovers
  <2> QED BY <2>1, <2>2
<1> HIDE DEF u
<1>5. 20 * u >= 2 * m + 1
  BY <1>1, <1>3
<1>6. (20 * u) * k >= (2 * m + 1) * k /\ (20 * u) * k = 20 * uk /\ (2 * m + 1) * k = 2 * mk + k
      /\ uk \in Nat
  BY <1>1, <1>3, <1>5
<1> HIDE DEF mk, uk
<1>7. 20 * uk >= 20 * total
  BY <1>1, <1>2, <1>6
<1>8. uk >= total
  BY <1>6, <1>7
<1> QED BY <1>8 DEF uk, u

\* A row as a vendor's calls make it, the figures the suggestion is made from.
RowTyped(v) ==
  /\ {v.actual, v.ok, v.units, v.searches} \subseteq Nat
  /\ v.mean10 = IF v.ok = 0 THEN 0 ELSE (20 * v.actual + v.ok) \div (2 * v.ok)
Asked(v) == IF v.vendor \in PerUnit THEN v.units ELSE IF v.vendor \in PerSearch THEN v.searches ELSE v.ok
LEMMA RecommendCovers ==
  ASSUME NEW v, RowTyped(v), NEW s \in Recommend(v)
  PROVE  /\ s.vendor = v.vendor
         /\ Asked(v) > 0 /\ (v.mean10 > 0 \/ v.vendor \in PerUnit \cup PerSearch) => s.suggested * Asked(v) >= v.actual * s.grain
<1>1. /\ v.actual \in Nat /\ v.ok \in Nat /\ v.units \in Nat /\ v.searches \in Nat
      /\ v.mean10 = IF v.ok = 0 THEN 0 ELSE (20 * v.actual + v.ok) \div (2 * v.ok)
  BY DEF RowTyped
<1>2. v.ok > 0
  BY <1>1 DEF Recommend
<1>3. \A n \in Nat, g \in Nat : n > 0 => UpTo(115 * v.actual * g, 100 * n) * n >= v.actual * g
  <2> SUFFICES ASSUME NEW n \in Nat, NEW g \in Nat, n > 0 PROVE UpTo(115 * v.actual * g, 100 * n) * n >= v.actual * g
    OBVIOUS
  <2> DEFINE a == v.actual * g
             u == UpTo(115 * v.actual * g, 100 * n)
  <2>1. a \in Nat /\ 115 * v.actual * g = 115 * a
    BY <1>1
  <2> HIDE DEF a
  <2>2. u \in Nat /\ u * (100 * n) >= 115 * a
    <3>1. 115 * a \in Nat /\ 100 * n \in Nat /\ 100 * n > 0
      BY <2>1
    <3>2. UpTo(115 * a, 100 * n) \in Nat /\ UpTo(115 * a, 100 * n) * (100 * n) >= 115 * a
      BY <3>1, UpToCovers
    <3> QED BY <2>1, <3>2
  <2> HIDE DEF u
  <2>3. u * (100 * n) = 100 * (u * n) /\ u * n \in Nat
    BY <2>2
  <2>4. u * n >= a
    BY <2>1, <2>2, <2>3
  <2> QED BY <2>4 DEF a, u
<1>4. CASE v.vendor \in PerUnit
  <2>1. Asked(v) = v.units
    BY <1>4 DEF Asked
  <2>2. v.units > 0 => s.grain = 1000 /\ s.suggested = UpTo(115 * v.actual * 1000, 100 * v.units) /\ s.vendor = v.vendor
    BY <1>1, <1>4 DEF Recommend
  <2>3. s.vendor = v.vendor
    BY DEF Recommend
  <2> QED BY <1>1, <1>3, <2>1, <2>2, <2>3
<1>5. CASE v.vendor \notin PerUnit /\ v.vendor \in PerSearch
  <2>1. Asked(v) = v.searches
    BY <1>5 DEF Asked
  <2>2. v.searches > 0 => s.grain = 1 /\ s.suggested = UpTo(115 * v.actual * 1, 100 * v.searches)
    BY <1>1, <1>5 DEF Recommend
  <2>3. s.vendor = v.vendor
    BY DEF Recommend
  <2> QED BY <1>1, <1>3, <2>1, <2>2, <2>3
<1>6. CASE v.vendor \notin PerUnit /\ v.vendor \notin PerSearch
  <2>1. Asked(v) = v.ok
    BY <1>6 DEF Asked
  <2>2. s.vendor = v.vendor /\ s.grain = 1 /\ s.suggested = UpTo(115 * v.mean10 * 1, 100 * 10)
    BY <1>1, <1>6 DEF Recommend
  <2> SUFFICES ASSUME v.mean10 > 0 PROVE s.suggested * v.ok >= v.actual
    BY <1>1, <1>6, <2>1, <2>2
  <2>3. v.mean10 = (20 * v.actual + v.ok) \div (2 * v.ok)
    BY <1>1, <1>2
  <2>4. UpTo(115 * v.mean10 * 1, 100 * 10) * v.ok >= v.actual
    BY <1>1, <1>2, <2>3, MeanCovers
  <2> QED BY <2>2, <2>4
<1> QED BY <1>4, <1>5, <1>6

\* A vendor's row, as the ledger makes it.
UnitsAre(e, n) == n = SumTo(e, LAMBDA c : c.units)
SearchesAre(e, n) == n = SumTo(e, LAMBDA c : c.searches)
LEMMA FiguresTyped ==
  ASSUME NEW N \in Nat, NEW ledger, LedgerOf(N, ledger), NEW X \in SUBSET (1..N),
         NEW u, UnitsAre(Entries(ledger, X), u), NEW q, SearchesAre(Entries(ledger, X), q)
  PROVE  u \in Nat /\ q \in Nat
<1> DEFINE e == Entries(ledger, X)
           n == Cardinality(X)
           f == [i \in DOMAIN e |-> e[i].units]
           g == [i \in DOMAIN e |-> e[i].searches]
<1>1. IsFiniteSet(X) /\ X \in SUBSET Int
  BY PlacesOf
<1>2. n \in Nat
  BY <1>1, FS_CardinalityType
<1>3. DOMAIN e = 1..n /\ \A i \in 1..n : InTurn(X)[i] \in X /\ e[i] = ledger[InTurn(X)[i]]
  BY <1>1, EntriesOf
<1>4. u = SumFunction(f) /\ q = SumFunction(g)
  BY Zenon DEF UnitsAre, SearchesAre, SumTo
<1> HIDE DEF e, n
<1>5. \A i \in 1..n : e[i].units \in Nat /\ e[i].searches \in Nat
  <2>1. \A i \in 1..n : Billed(e[i])
    BY <1>3 DEF LedgerOf
  <2> QED BY <2>1 DEF Billed
<1>6. f \in [1..n -> Int] /\ g \in [1..n -> Int] /\ \A i \in 1..n : f[i] \in Nat /\ g[i] \in Nat
  BY <1>3, <1>5
<1>7. SumFunction(f) = SumFunctionOnSet(f, 1..n) /\ SumFunction(g) = SumFunctionOnSet(g, 1..n)
  BY <1>6 DEF SumFunction
<1> DEFINE D == 1..n
<1>8. IsFiniteSet(D) /\ f \in [D -> Int] /\ g \in [D -> Int] /\ \A i \in D : f[i] \in Nat /\ g[i] \in Nat
  BY <1>2, <1>6, FS_Interval
<1> HIDE DEF f, g, D
<1>9. SumFunctionOnSet(f, D) \in Nat /\ SumFunctionOnSet(g, D) \in Nat
  BY <1>8, SumNat
<1> QED BY <1>4, <1>7, <1>9 DEF D

LEMMA RowOf ==
  ASSUME NEW N \in Nat, NEW ledger, LedgerOf(N, ledger), NoCost \notin Nat, NEW X \in SUBSET (1..N),
         NEW v, NEW r, r = VendorCost(v, Entries(ledger, X))
  PROVE  RowTyped(r) /\ r.vendor = v /\ r.p50 <= r.p95
<1> DEFINE e == Entries(ledger, X)
           Y == Answered(ledger, X)
           ok == Ok(e)
           n == Cardinality(Y)
           ms == [i \in DOMAIN ok |-> ok[i].latency]
<1>1. Y \in SUBSET (1..N)
  BY DEF Answered
<1>2. IsFiniteSet(Y) /\ Y \in SUBSET Int
  BY <1>1, PlacesOf
<1>3. n \in Nat
  BY <1>2, FS_CardinalityType
<1>4. ok = Entries(ledger, Y)
  BY OkOf
<1>5. DOMAIN ok = 1..n /\ \A i \in 1..n : InTurn(Y)[i] \in Y /\ ok[i] = ledger[InTurn(Y)[i]]
  <2> HIDE DEF Y, ok
  <2> QED BY <1>2, <1>4, EntriesOf
<1>6. Actual(e) = PaidFor(ledger, X) /\ PaidFor(ledger, X) \in Nat
  <2>1. PaidFor(ledger, {}) = 0
    BY SumEmpty DEF PaidFor
  <2>2. PaidFor(ledger, X) \in Int /\ PaidFor(ledger, {}) <= PaidFor(ledger, X)
    BY PaidInParts
  <2> QED BY <2>1, <2>2, ActualOf
<1>7. VendorSays(v, e)
  BY VendorFields
<1>8. r.units \in Nat /\ r.searches \in Nat
  <2>1. UnitsAre(e, r.units) /\ SearchesAre(e, r.searches)
    BY Zenon DEF UnitsAre, SearchesAre, VendorCost
  <2> HIDE DEF e
  <2> QED BY <2>1, FiguresTyped DEF e
<1> HIDE DEF e, ok, Y, n, ms
<1>9. Len(ok) = n /\ (ok = <<>> <=> n = 0)
  <2>1. Len(ok) = n
    BY <1>3, <1>5, LenOf
  <2>2. ok = <<>> => n = 0
    BY <1>3, <1>5
  <2>3. n = 0 => ok = <<>>
    <3> SUFFICES ASSUME n = 0 PROVE ok = <<>>
      OBVIOUS
    <3>1. ok = [i \in 1..n |-> ledger[InTurn(Y)[i]]]
      BY <1>4 DEF Entries, n
    <3> QED BY <1>5, <3>1
  <2> QED BY <2>1, <2>2, <2>3
<1>10. r.ok = n /\ r.actual = Actual(e) /\ r.vendor = v
       /\ r.mean10 = (IF ok = <<>> THEN 0 ELSE (20 * Actual(e) + Len(ok)) \div (2 * Len(ok)))
       /\ r.p50 = Percentile(ms, 50) /\ r.p95 = Percentile(ms, 95)
  BY <1>7, <1>9 DEF VendorSays, e, ok, ms
<1>11. RowTyped(r)
  BY <1>3, <1>6, <1>8, <1>9, <1>10 DEF RowTyped
<1>12. r.p50 <= r.p95
  <2>1. ms \in [1..n -> Int]
    <3>1. \A i \in 1..n : Billed(ok[i])
      BY <1>1, <1>5 DEF LedgerOf
    <3>2. \A i \in 1..n : ok[i].latency \in Int
      BY <3>1 DEF Billed
    <3> QED BY <1>5, <3>2 DEF ms
  <2>2. Percentile(ms, 50) <= Percentile(ms, 95)
    BY <1>3, <2>1, PercentilesRise
  <2> QED BY <1>10, <2>2
<1> QED BY <1>10, <1>11, <1>12
\* The prompts' reports, with what no prompt owns, make up the whole.
PromptsOf(ledger) == {ledger[i].prompt : i \in DOMAIN ledger} \ {Nowhere}
PromptPays(ledger, X, h) == h = [p \in PromptsOf(ledger) |-> PaidFor(ledger, PromptAt(ledger, X, p))]
LEMMA PromptsSum ==
  ASSUME NEW N \in Nat, NEW ledger, LedgerOf(N, ledger), NoCost \notin Nat, NEW X \in SUBSET (1..N),
         NEW h, PromptPays(ledger, X, h)
  PROVE  SumFunction(h) + PaidFor(ledger, PromptAt(ledger, X, Nowhere)) = PaidFor(ledger, X)
<1> DEFINE P == PromptsOf(ledger)
           Z == X \ PromptAt(ledger, X, Nowhere)
           key == [i \in Z |-> ledger[i].prompt]
           G == {key[i] : i \in Z}
           D == 1..N
           all == [i \in D |-> ledger[i].prompt]
           Q == {all[i] : i \in D}
           k == Cut(h, G)
<1>1. Z \in SUBSET (1..N) /\ PromptAt(ledger, X, Nowhere) \in SUBSET X
  BY DEF PromptAt
<1>2. PaidFor(ledger, X) = PaidFor(ledger, PromptAt(ledger, X, Nowhere)) + PaidFor(ledger, Z)
      /\ PaidFor(ledger, PromptAt(ledger, X, Nowhere)) \in Int /\ PaidFor(ledger, Z) \in Int
  BY <1>1, PaidInParts
<1>3. IsFiniteSet(P)
  <2>1. IsFiniteSet(D) /\ AllKeys(D, all, Q)
    BY FS_Interval DEF AllKeys
  <2>2. P \in SUBSET Q
    BY DEF PromptsOf, LedgerOf
  <2> HIDE DEF D, all, Q, P
  <2>3. IsFiniteSet(Q)
    BY <2>1, ValuesFinite
  <2> QED BY <2>2, <2>3, FS_Subset
<1>4. h \in [P -> Int] /\ \A p \in P : h[p] = PaidFor(ledger, PromptAt(ledger, X, p))
  <2>1. \A p : PromptAt(ledger, X, p) \in SUBSET (1..N)
    BY DEF PromptAt
  <2>2. \A p : PaidFor(ledger, PromptAt(ledger, X, p)) \in Int
    BY <2>1, PaidTyped
  <2> HIDE DEF P
  <2>3. h = [p \in P |-> PaidFor(ledger, PromptAt(ledger, X, p))]
    BY DEF PromptPays, P
  <2> QED BY <2>2, <2>3
<1>5. G \in SUBSET P
  BY DEF PromptsOf, LedgerOf, PromptAt
<1>6. \A p \in P \ G : h[p] = 0
  <2>1. \A p \in P \ G : PromptAt(ledger, X, p) = {}
    BY DEF PromptsOf, PromptAt
  <2>2. PaidFor(ledger, {}) = 0
    BY SumEmpty DEF PaidFor
  <2> QED BY <1>4, <2>1, <2>2
<1>7. \A p \in G : PromptAt(ledger, X, p) = {i \in Z : key[i] = p}
  BY DEF PromptAt
<1> HIDE DEF P, Z, key, G
<1>8. /\ k \in [G -> Int] /\ \A p \in G : k[p] = h[p]
      /\ SumFunctionOnSet(k, G) = SumFunctionOnSet(h, G)
  <2>1. G \in SUBSET G
    OBVIOUS
  <2> QED BY <1>3, <1>4, <1>5, <2>1, SumCut
<1> HIDE DEF k
<1>9. PaysByKey(ledger, Z, key, G, k)
  <2>1. AllKeys(Z, key, G)
    BY DEF G, AllKeys
  <2>2. \A p \in G : k[p] = PaidFor(ledger, {i \in Z : key[i] = p})
    BY <1>4, <1>5, <1>7, <1>8
  <2>3. k = [p \in G |-> PaidFor(ledger, {i \in Z : key[i] = p})]
    BY <1>8, <2>2
  <2> QED BY <2>1, <2>3 DEF PaysByKey
<1>10. SumFunctionOnSet(k, G) = PaidFor(ledger, Z)
  BY <1>1, <1>9, PaidByKey
<1>11. SumFunctionOnSet(h, P) = SumFunctionOnSet(h, G)
  <2>1. InParts(h, P, G)
    <3>1. P \in SUBSET P
      OBVIOUS
    <3> QED BY <1>3, <1>4, <1>5, <3>1, SumPartial
  <2> QED BY <1>6, <2>1 DEF InParts
<1>12. SumFunction(h) = SumFunctionOnSet(h, P)
  BY <1>4 DEF SumFunction
<1>13. SumFunction(h) = PaidFor(ledger, Z)
  BY <1>8, <1>10, <1>11, <1>12
<1> DEFINE none == PaidFor(ledger, PromptAt(ledger, X, Nowhere))
           rest == PaidFor(ledger, Z)
<1>14. PaidFor(ledger, X) = none + rest /\ none \in Int /\ rest \in Int
  BY <1>2
<1> HIDE DEF none, rest
<1>15. rest + none = PaidFor(ledger, X)
  BY <1>14
<1> QED BY <1>13, <1>15 DEF none, rest

LEMMA SharedBound ==
  ASSUME NEW N \in Nat, NEW ledger, LedgerOf(N, ledger), NoCost \notin Nat, NEW since, NEW p, p # Nowhere,
         \A i \in 1..N : ledger[i].prompt = p => ledger[i].run # Nowhere,
         NEW X, X = CountedAt(ledger, since), NEW M, M = RunsAt(ledger, PromptAt(ledger, X, p))
  PROVE  PaidFor(ledger, PromptAt(ledger, X, p)) + PaidFor(ledger, SharedAt(ledger, since, M))
         <= PaidFor(ledger, {i \in X : ledger[i].run \in M})
<1> DEFINE W == {i \in X : ledger[i].run \in M}
           A == PromptAt(ledger, X, p)
           B == SharedAt(ledger, since, M)
<1>1. X \in SUBSET (1..N)
  BY DEF CountedAt, LedgerOf
<1>2. W \in SUBSET (1..N) /\ A \in SUBSET W
  BY <1>1 DEF PromptAt, RunsAt
<1>3. B \in SUBSET (W \ A) /\ W \ A \in SUBSET (1..N)
  BY <1>1 DEF PromptAt, SharedAt
<1> HIDE DEF W, A, B
<1>4. PaidFor(ledger, W) = PaidFor(ledger, A) + PaidFor(ledger, W \ A) /\ PaidFor(ledger, A) \in Int
      /\ PaidFor(ledger, W) \in Int /\ PaidFor(ledger, W \ A) \in Int
  BY <1>2, PaidInParts
<1>5. PaidFor(ledger, B) <= PaidFor(ledger, W \ A) /\ PaidFor(ledger, B) \in Int
  BY <1>3, PaidInParts
<1> QED BY <1>4, <1>5 DEF W, A, B

\* costing.py, usage.py: whatever the ledger holds, a report's money is that of its vendors
\* and of its runs, the caps' query sums the same calls, the prompts' reports make up
\* the whole, and a suggested reservation covers what was paid.
THEOREM CostsAlwaysAddUp ==
  ASSUME NEW N \in Nat, NEW ledger, LedgerOf(N, ledger), NoCost \notin Nat, NEW since
  PROVE  CostsAddUp(ledger, since)
<1> DEFINE X == CountedAt(ledger, since)
           all == CostReport(ledger, since, {"demo"}, Nowhere)
           loose == Those(ledger, LAMBDA c : c.ts >= since /\ c.source # "demo" /\ c.run = Nowhere)
           unasked == Those(ledger, LAMBDA c : c.ts >= since /\ c.source # "demo" /\ c.prompt = Nowhere)
           of(p) == CostReport(ledger, since, {"demo"}, p)
<1>1. X \in SUBSET (1..N) /\ X = ReportAt(ledger, since, Nowhere)
  BY DEF CountedAt, ReportAt, LedgerOf
<1>2. /\ all.actual = PaidFor(ledger, X)
      /\ all.vendors = {VendorCost(v, Entries(ledger, VendorAt(ledger, X, v))) : v \in VendorsAt(ledger, X)}
      /\ all.runs = {RunCost(r, Entries(ledger, X)) : r \in RunsAt(ledger, X)}
      /\ all.suggested = UNION {Recommend(v) : v \in all.vendors}
  <2> HIDE DEF X
  <2> QED BY <1>1, ReportOf
<1>3. Actual(loose) = PaidFor(ledger, RunAt(ledger, X, Nowhere))
  <2> DEFINE Y == {i \in DOMAIN ledger : ledger[i].ts >= since /\ ledger[i].source # "demo" /\ ledger[i].run = Nowhere}
  <2>1. loose = Entries(ledger, Y)
    BY Zenon DEF Those
  <2>2. Y = RunAt(ledger, X, Nowhere) /\ Y \in SUBSET (1..N)
    BY DEF RunAt, CountedAt, LedgerOf
  <2> HIDE DEF Y, loose
  <2> QED BY <2>1, <2>2, ActualOf
<1>4. Actual(unasked) = PaidFor(ledger, PromptAt(ledger, X, Nowhere))
  <2> DEFINE Y == {i \in DOMAIN ledger : ledger[i].ts >= since /\ ledger[i].source # "demo" /\ ledger[i].prompt = Nowhere}
  <2>1. unasked = Entries(ledger, Y)
    BY Zenon DEF Those
  <2>2. Y = PromptAt(ledger, X, Nowhere) /\ Y \in SUBSET (1..N)
    BY DEF PromptAt, CountedAt, LedgerOf
  <2> HIDE DEF Y, unasked
  <2> QED BY <2>1, <2>2, ActualOf
<1> HIDE DEF all, loose, unasked, X
<1>5. all.actual = SumOver(all.vendors, LAMBDA v : v.actual)
  <2>1. SumOver(all.vendors, LAMBDA v : v.actual) = PaidFor(ledger, X)
    BY <1>1, <1>2, VendorsSum
  <2> QED BY <1>2, <2>1
<1>6. all.actual = SumOver(all.runs, LAMBDA r : r.actual) + Actual(loose)
  <2> DEFINE M == RunsAt(ledger, X)
             Z == {i \in X : ledger[i].run \in M}
  <2>1. Z \in SUBSET X /\ X \ Z = RunAt(ledger, X, Nowhere)
    BY DEF RunsAt, RunAt
  <2>2. M \in SUBSET RunsAt(ledger, X) /\ all.runs = {RunCost(r, Entries(ledger, X)) : r \in M}
    BY <1>2
  <2> HIDE DEF M
  <2>3. SumOver(all.runs, LAMBDA r : r.actual) = PaidFor(ledger, Z)
    BY <1>1, <2>2, RunsSum
  <2> HIDE DEF Z
  <2>4. PaidFor(ledger, X) = PaidFor(ledger, Z) + PaidFor(ledger, X \ Z)
    BY <1>1, <2>1, PaidInParts
  <2> QED BY <1>2, <1>3, <2>1, <2>3, <2>4
<1>7. all.actual = SpentSince(ledger, since)
  BY <1>2, CapsSum DEF X
<1>8. \A r \in all.runs : r.actual = SumFunction(r.by)
  <2> SUFFICES ASSUME NEW run \in RunsAt(ledger, X), NEW r, r = RunCost(run, Entries(ledger, X))
               PROVE  r.actual = SumFunction(r.by)
    BY <1>2
  <2> DEFINE Y == RunAt(ledger, X, run)
             G == VendorsAt(ledger, Y)
             key == [i \in Y |-> ledger[i].vendor]
             h == [v \in G |-> PaidFor(ledger, VendorAt(ledger, Y, v))]
  <2>1. RunSays(ledger, X, run)
    BY <1>1, RunFields
  <2>2. r.actual = PaidFor(ledger, Y) /\ r.by = h
    BY <2>1 DEF RunSays
  <2>3. Y \in SUBSET (1..N)
    BY <1>1 DEF RunAt
  <2>4. AllKeys(Y, key, G)
    BY DEF AllKeys, VendorsAt
  <2>5. \A v : {i \in Y : key[i] = v} = VendorAt(ledger, Y, v)
    BY DEF VendorAt
  <2> HIDE DEF Y, G, key
  <2>6. PaysByKey(ledger, Y, key, G, h)
    BY <2>4, <2>5 DEF PaysByKey
  <2> HIDE DEF h
  <2>7. h \in [G -> Int] /\ SumFunctionOnSet(h, G) = PaidFor(ledger, Y)
    BY <2>3, <2>6, PaidByKey
  <2>8. SumFunction(h) = SumFunctionOnSet(h, G)
    BY <2>7 DEF SumFunction
  <2> QED BY <2>2, <2>7, <2>8
<1>9. \A p : p # Nowhere => ReportAt(ledger, since, p) = PromptAt(ledger, X, p)
  BY DEF ReportAt, PromptAt, X
<1>10. SumOver(PromptsOf(ledger), LAMBDA p : of(p).actual) + Actual(unasked) = all.actual
  <2> DEFINE h == [p \in PromptsOf(ledger) |-> of(p).actual]
  <2>1. \A p \in PromptsOf(ledger) : of(p).actual = PaidFor(ledger, PromptAt(ledger, X, p))
    <3> SUFFICES ASSUME NEW p \in PromptsOf(ledger) PROVE of(p).actual = PaidFor(ledger, PromptAt(ledger, X, p))
      OBVIOUS
    <3> DEFINE A == ReportAt(ledger, since, p)
               R == of(p)
    <3>1. R = CostReport(ledger, since, {"demo"}, p)
      OBVIOUS
    <3> HIDE DEF A, R
    <3>2. R.actual = PaidFor(ledger, A)
      BY <3>1, ReportOf DEF A
    <3> QED BY <1>9, <3>2 DEF A, R, PromptsOf
  <2>2. SumOver(PromptsOf(ledger), LAMBDA p : of(p).actual) = SumFunction(h)
    BY Zenon DEF SumOver
  <2> HIDE DEF of
  <2>3. PromptPays(ledger, X, h)
    BY <2>1 DEF PromptPays
  <2> HIDE DEF h
  <2>4. SumFunction(h) + PaidFor(ledger, PromptAt(ledger, X, Nowhere)) = PaidFor(ledger, X)
    BY <1>1, <2>3, PromptsSum
  <2> QED BY <1>2, <1>4, <2>2, <2>4
<1>11. \A p \in PromptsOf(ledger) :
         LET mine == {x.run : x \in of(p).runs} IN
         (\A i \in DOMAIN ledger : ledger[i].prompt = p => ledger[i].run # Nowhere) =>
           of(p).actual + of(p).unattributedActual <= SumOver({r \in all.runs : r.run \in mine}, LAMBDA r : r.actual)
  <2> SUFFICES ASSUME NEW p \in PromptsOf(ledger),
                      \A i \in DOMAIN ledger : ledger[i].prompt = p => ledger[i].run # Nowhere
               PROVE  of(p).actual + of(p).unattributedActual
                      <= SumOver({r \in all.runs : r.run \in {x.run : x \in of(p).runs}}, LAMBDA r : r.actual)
    OBVIOUS
  <2> DEFINE A == PromptAt(ledger, X, p)
             R == of(p)
             M == RunsAt(ledger, A)
             S == {r \in all.runs : r.run \in {x.run : x \in R.runs}}
  <2>1. R = CostReport(ledger, since, {"demo"}, p) /\ A = ReportAt(ledger, since, p) /\ p # Nowhere
    BY <1>9 DEF PromptsOf
  <2>2. A \in SUBSET (1..N) /\ M \in SUBSET RunsAt(ledger, X)
    BY <1>1 DEF PromptAt, RunsAt
  <2> HIDE DEF A, R, S
  <2>3. /\ R.actual = PaidFor(ledger, A)
        /\ R.runs = {RunCost(r, Entries(ledger, A)) : r \in M}
        /\ R.unattributedActual = PaidFor(ledger, SharedAt(ledger, since, M))
    BY <2>1, ReportOf
  <2> HIDE DEF M
  <2>4. \A r : RunCost(r, Entries(ledger, A)).run = r /\ RunCost(r, Entries(ledger, X)).run = r
    <3>1. \A r : RunSays(ledger, A, r) /\ RunSays(ledger, X, r)
      BY <1>1, <2>2, RunFields
    <3> QED BY <3>1 DEF RunSays
  <2>5. {x.run : x \in R.runs} = M
    BY <2>3, <2>4
  <2>6. S = {RunCost(r, Entries(ledger, X)) : r \in M}
    <3>1. \A r \in all.runs : \E n \in RunsAt(ledger, X) : r = RunCost(n, Entries(ledger, X)) /\ r.run = n
      BY <1>2, <2>4
    <3>2. \A n \in RunsAt(ledger, X) : RunCost(n, Entries(ledger, X)) \in all.runs
      BY <1>2
    <3> QED BY <2>2, <2>4, <2>5, <3>1, <3>2 DEF S
  <2>7. SumOver(S, LAMBDA r : r.actual) = PaidFor(ledger, {i \in X : ledger[i].run \in M})
    BY <1>1, <2>2, <2>6, RunsSum
  <2>8. PaidFor(ledger, A) + PaidFor(ledger, SharedAt(ledger, since, M)) <= PaidFor(ledger, {i \in X : ledger[i].run \in M})
    <3>1. \A i \in 1..N : ledger[i].prompt = p => ledger[i].run # Nowhere
      BY DEF LedgerOf
    <3> QED BY <2>1, <3>1, SharedBound DEF A, X, M
  <2>9. R.actual + R.unattributedActual <= SumOver(S, LAMBDA r : r.actual)
    BY <2>3, <2>7, <2>8
  <2> QED BY <2>9 DEF R, S
<1>12. \A v \in all.vendors : RowTyped(v) /\ v.p50 <= v.p95
  <2>1. \A w : VendorAt(ledger, X, w) \in SUBSET (1..N)
    BY <1>1 DEF VendorAt
  <2>2. \A w : RowTyped(VendorCost(w, Entries(ledger, VendorAt(ledger, X, w))))
               /\ VendorCost(w, Entries(ledger, VendorAt(ledger, X, w))).p50 <= VendorCost(w, Entries(ledger, VendorAt(ledger, X, w))).p95
    BY <2>1, RowOf
  <2> QED BY <1>2, <2>2
<1>13. \A v, w \in all.vendors : v.vendor = w.vendor => v = w
  <2>1. \A w : VendorCost(w, Entries(ledger, VendorAt(ledger, X, w))).vendor = w
    <3>1. \A w : VendorAt(ledger, X, w) \in SUBSET (1..N)
      BY <1>1 DEF VendorAt
    <3> QED BY <3>1, RowOf
  <2> QED BY <1>2, <2>1
<1>14. \A s \in all.suggested : \A v \in all.vendors :
         v.vendor = s.vendor /\ Asked(v) > 0 /\ (v.mean10 > 0 \/ v.vendor \in PerUnit \cup PerSearch)
           => s.suggested * Asked(v) >= v.actual * s.grain
  <2> SUFFICES ASSUME NEW w \in all.vendors, NEW s \in Recommend(w), NEW v \in all.vendors, v.vendor = s.vendor,
                      Asked(v) > 0, v.mean10 > 0 \/ v.vendor \in PerUnit \cup PerSearch
               PROVE  s.suggested * Asked(v) >= v.actual * s.grain
    BY <1>2
  <2>1. RowTyped(w)
    BY <1>12
  <2>2. s.vendor = w.vendor
    BY <2>1, RecommendCovers
  <2>3. v = w
    BY <1>13, <2>2
  <2> QED BY <2>1, <2>3, RecommendCovers
<1> QED BY <1>5, <1>6, <1>7, <1>8, <1>10, <1>11, <1>12, <1>14, Zenon DEF CostsAddUp, all, loose, unasked, PromptsOf, Asked

\* A price list: what is cached is charged no more than what is not.
PriceList ==
  /\ \A m \in DOMAIN Prices : /\ {Prices[m].input, Prices[m].output, Prices[m].cached} \subseteq Nat
                              /\ Prices[m].cached <= Prices[m].input
  /\ \A i \in DOMAIN Families : Families[i].model \in DOMAIN Prices
  /\ DOMAIN Families \subseteq Nat
  /\ \A v \in DOMAIN SearchFee : SearchFee[v] \in Nat

\* pricing.py: with a price list of that kind, whatever the model and the tokens, caching
\* never makes a call dearer, more tokens never cheaper, and a call of an unknown model
\* has no modelled cost.
THEOREM PricesAlwaysSound ==
  ASSUME PriceList, NEW vendor, NEW model, NEW input \in Nat, NEW cached \in Nat, NEW output \in Nat
  PROVE  PricesSound(vendor, model, input, cached, output)
<1>1. CASE PriceCard(vendor, model) = {}
  BY <1>1 DEF PricesSound, ModelledCost
<1>2. CASE PriceCard(vendor, model) # {}
  <2> DEFINE card == CHOOSE c \in PriceCard(vendor, model) : TRUE
             fee == 0 * (IF vendor \in DOMAIN SearchFee THEN SearchFee[vendor] ELSE 0)
             cost(i, c, o) == ModelledCost(vendor, model, i, o, c, 0)
             sum(i, c, o) == ((IF i > c THEN i - c ELSE 0) * card.input + c * card.cached + o * card.output) + fee
  <2>1. card \in PriceCard(vendor, model)
    BY <1>2
  <2>2. \E m \in DOMAIN Prices : card = Prices[m]
    <3>1. CASE model.name \in DOMAIN Prices
      BY <2>1, <3>1 DEF PriceCard
    <3>2. CASE model.name \notin DOMAIN Prices
      <4> DEFINE near == {i \in DOMAIN Families : Families[i].vendor = vendor /\ Families[i].needle \in model.needles}
      <4>1. near # {} /\ card = Prices[Families[Min(near)].model]
        <5>1. PriceCard(vendor, model) = IF near = {} THEN {} ELSE {Prices[Families[Min(near)].model]}
          BY <3>2, Zenon DEF PriceCard
        <5> HIDE DEF card, near
        <5> QED BY <1>2, <2>1, <5>1
      <4>2. Min(near) \in near
        <5>1. near \in SUBSET Nat
          BY DEF PriceList
        <5> HIDE DEF near
        <5>2. PICK n \in near : \A m \in near : n <= m
          BY <4>1, <5>1, LeastOf
        <5> QED BY <5>2 DEF Min
      <4> HIDE DEF card
      <4> QED BY <4>1, <4>2 DEF PriceList
    <3> QED BY <3>1, <3>2
  <2>3. \A i, c, o : cost(i, c, o) = sum(i, c, o)
    BY <1>2 DEF ModelledCost
  <2>4. fee = 0
    BY DEF PriceList
  <2> HIDE DEF card, fee
  <2>5. /\ card.input \in Nat /\ card.cached \in Nat /\ card.output \in Nat
        /\ card.cached <= card.input
    BY <2>2 DEF PriceList
  <2>6. ASSUME cached <= input
        PROVE  sum(input, cached, output) <= sum(input, 0, output) /\ sum(input, cached, output) <= sum(input + 1, cached, output + 1)
    <3> DEFINE n == input - cached
               a == card.input
               b == card.cached
               p == n * a
               q == cached * b
               r == output * card.output
               u == cached * a
    <3>1. n \in Nat /\ p \in Nat /\ q \in Nat /\ r \in Nat /\ u \in Nat /\ q <= u
      BY <2>5, <2>6
    <3>2. input * a = p + u /\ (n + 1) * a = p + a /\ (output + 1) * card.output = r + card.output
      <4>1. \A x, y, z \in Nat : (x + y) * z = x * z + y * z
        OBVIOUS
      <4>2. input = n + cached /\ n \in Nat /\ a \in Nat
        BY <2>5, <2>6
      <4>3. input * a = n * a + cached * a
        BY <4>1, <4>2
      <4>4. (n + 1) * a = n * a + 1 * a /\ (output + 1) * card.output = output * card.output + 1 * card.output
        <5>1. 1 \in Nat /\ card.output \in Nat
          BY <2>5
        <5> HIDE DEF n, a
        <5> QED BY <4>1, <4>2, <5>1
      <4> QED BY <2>5, <4>3, <4>4
    <3>3. sum(input, cached, output) = p + q + r
      BY <2>4, <2>5, <2>6, <3>1
    <3>4. sum(input, 0, output) = p + u + r
      <4>1. input > 0 \/ input * a = 0
        BY <2>5
      <4>2. (IF input > 0 THEN input - 0 ELSE 0) * a = p + u
        BY <2>5, <3>2, <4>1
      <4>3. 0 * b = 0
        BY <2>5
      <4> HIDE DEF p, q, r, u
      <4> QED BY <2>4, <3>1, <4>2, <4>3 DEF r
    <3>5. sum(input + 1, cached, output + 1) = p + a + q + (r + card.output)
      <4>1. (IF input + 1 > cached THEN input + 1 - cached ELSE 0) = n + 1
        BY <2>6
      <4> HIDE DEF p, r, n
      <4> QED BY <2>4, <2>5, <3>1, <3>2, <4>1
    <3> HIDE DEF p, q, r, u, sum
    <3> QED BY <2>5, <3>1, <3>3, <3>4, <3>5
  <2> QED BY <1>2, <2>3, <2>6 DEF PricesSound
<1> QED BY <1>1, <1>2

=============================================================================
