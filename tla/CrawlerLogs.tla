---------------------------- MODULE CrawlerLogs ----------------------------
(***************************************************************************)
(* crawler_logs/store.py under control_plane/crawler_routes.py: the        *)
(* imported access logs of every project.                                  *)
(*                                                                         *)
(* An upload runs on the event loop until its body is read, and in the     *)
(* thread pool from then on, so uploads overlap each other, the deletion   *)
(* of an import and the deletion of the project.  Every `with _connect()`  *)
(* block is one transaction, except that record_import looks for a         *)
(* duplicate before its first INSERT opens the transaction.                *)
(***************************************************************************)
EXTENDS Integers, FiniteSets

CONSTANTS
  Projects, Uploads,   \* upload requests under way
  Files,               \* contents, told apart by content_sha256
  DayLines,            \* per file: the days of stats.day_lines with their lines
  HitDays,             \* per file: the days of its aggregate rows
  Retention,           \* crawler_log_retention_days
  FirstDay,            \* the day the server starts
  MaxDay, MaxImports   \* bounds on the days that pass and the ids minted

ASSUME ConstantsAssumption ==
  /\ Retention \in Nat /\ MaxDay \in Nat /\ FirstDay \in 0..MaxDay /\ MaxImports \in Nat
  /\ "none" \notin Projects
  /\ \A f \in Files : DOMAIN DayLines[f] \subseteq 0..MaxDay /\ HitDays[f] \subseteq 0..MaxDay

VARIABLES
  projects,   \* the projects that exist
  leaving,    \* deleted projects whose log data is not deleted yet
  imports,    \* crawler_imports: the rows, by id; ids are in the order of imported_at
  days,       \* crawler_import_days: <<import, day>>
  hits,       \* crawler_hits (crawler_stealth is written and deleted with it)
  minted,     \* ids minted so far
  upload,     \* per upload request: where it is, its project, file and import id
  today,
  swept,      \* history: the cutoff of the last purge
  outrun      \* history: projects whose deletion an upload or a crash cut across

vars == <<projects, leaving, imports, days, hits, minted, upload, today, swept, outrun>>
store == <<imports, days, hits>>

Ids == 1..MaxImports
NoImport == [project |-> "none", file |-> "none", purged |-> FALSE]
Imports == [project : Projects, file : Files, purged : BOOLEAN]
Idle == [at |-> "idle", project |-> "none", file |-> "none", id |-> 0]
Stored(i) == imports[i] # NoImport
SameContent(p, f) == {i \in Ids : Stored(i) /\ imports[i].project = p /\ imports[i].file = f}

Init ==
  /\ projects = Projects /\ leaving = {} /\ outrun = {}
  /\ imports = [i \in Ids |-> NoImport] /\ days = {} /\ hits = {} /\ minted = 0
  /\ upload = [u \in Uploads |-> Idle]
  /\ today = FirstDay /\ swept = FirstDay - Retention

----------------------------------------------------------------------------
(* Uploading. *)

Go(u, to) == upload' = [upload EXCEPT ![u].at = to]
Drop(u) == upload' = [upload EXCEPT ![u] = Idle]

\* import_log: the project exists; the body is read into the spool.
Receive(u, p, f) ==
  /\ upload[u] = Idle /\ p \in projects
  /\ upload' = [upload EXCEPT ![u] = [at |-> "received", project |-> p, file |-> f, id |-> 0]]
  /\ UNCHANGED <<projects, leaving, store, minted, today, swept, outrun>>

\* Mutant: the thread trusts the look the event loop took.
ParseTrusting(u) ==
  /\ upload[u].at = "received"
  /\ Go(u, "parsed")
  /\ UNCHANGED <<projects, leaving, store, minted, today, swept, outrun>>

\* _ingest, in the thread pool: the project is looked up again, the file parsed.
\* A file that is too large or unusable, or a deleted project, is refused.
Parse(u) ==
  /\ upload[u].at = "received"
  /\ \/ upload[u].project \in projects /\ Go(u, "parsed")
     \/ Drop(u)
  /\ UNCHANGED <<projects, leaving, store, minted, today, swept, outrun>>

\* record_import: the id is minted, then the duplicate looked for.
LookForDuplicate(u) ==
  /\ upload[u].at = "parsed" /\ minted < MaxImports
  /\ minted' = minted + 1
  /\ IF SameContent(upload[u].project, upload[u].file) # {} THEN Drop(u)
     ELSE upload' = [upload EXCEPT ![u].at = "new", ![u].id = minted + 1]
  /\ UNCHANGED <<projects, leaving, store, today, swept, outrun>>

Rows(i, f) ==
  /\ days' = days \cup {i} \X DOMAIN DayLines[f]
  /\ hits' = hits \cup {i} \X HitDays[f]

\* Mutant: no UNIQUE (project_id, content_sha256).
InsertAnyway(u) ==
  /\ upload[u].at = "new"
  /\ imports' = [imports EXCEPT ![upload[u].id] =
       [project |-> upload[u].project, file |-> upload[u].file, purged |-> FALSE]]
  /\ Rows(upload[u].id, upload[u].file)
  /\ Go(u, "recorded")
  /\ UNCHANGED <<projects, leaving, minted, today, swept, outrun>>

\* record_import: the rows of one import, in one transaction; the UNIQUE
\* constraint refuses what the look for a duplicate missed.
Insert(u) ==
  LET i == upload[u].id  p == upload[u].project  f == upload[u].file IN
  /\ upload[u].at = "new"
  /\ IF SameContent(p, f) # {} THEN Drop(u) /\ UNCHANGED store
     ELSE /\ imports' = [imports EXCEPT ![i] = [project |-> p, file |-> f, purged |-> FALSE]]
          /\ Rows(i, f)
          /\ Go(u, "recorded")
  /\ UNCHANGED <<projects, leaving, minted, today, swept, outrun>>

\* Mutant: the import is answered for without a purge.
RereadAndAnswer(u) ==
  /\ upload[u].at = "recorded"
  /\ Drop(u)
  /\ UNCHANGED <<projects, leaving, store, minted, today, swept, outrun>>

\* get_import reads the row back; it may have been deleted, a KeyError.
Reread(u) ==
  /\ upload[u].at = "recorded"
  /\ IF Stored(upload[u].id) THEN Go(u, "read") ELSE Drop(u)
  /\ UNCHANGED <<projects, leaving, store, minted, today, swept, outrun>>

Cutoff == today - Retention
Kept(rows) == {r \in rows : r[2] >= Cutoff}

\* Mutant: the coverage is purged with the day of the cutoff, the hits before it.
PurgeUneven ==
  /\ hits' = Kept(hits) /\ days' = {r \in days : r[2] > Cutoff}
  /\ imports' = imports /\ swept' = Cutoff

\* purge: rows of old days go, whatever import they came with; an import that
\* has no day left is stamped and kept as provenance.
Purge ==
  /\ hits' = Kept(hits) /\ days' = Kept(days)
  /\ imports' = [i \in Ids |->
       IF Stored(i) /\ \A r \in Kept(days) : r[1] # i
       THEN [imports[i] EXCEPT !.purged = TRUE] ELSE imports[i]]
  /\ swept' = Cutoff

PurgeAndAnswer(u) ==
  /\ upload[u].at = "read"
  /\ Purge /\ Drop(u)
  /\ UNCHANGED <<projects, leaving, minted, today, outrun>>

----------------------------------------------------------------------------
(* Deleting, and time. *)

\* The rows of these imports go, and what references them (ON DELETE CASCADE).
Cascade(gone) ==
  /\ imports' = [i \in Ids |-> IF i \in gone THEN NoImport ELSE imports[i]]
  /\ days' = {r \in days : r[1] \notin gone}
  /\ hits' = {r \in hits : r[1] \notin gone}

DeleteImport(i) ==
  /\ Stored(i) /\ imports[i].project \in projects
  /\ Cascade({i})
  /\ UNCHANGED <<projects, leaving, minted, upload, today, swept, outrun>>

\* Uploads that will still write for project p.
Writing(p) == {u \in Uploads : upload[u].project = p /\ upload[u].at \in {"parsed", "new"}}

\* app.delete_project: the project's row first, in a transaction of its own.
DeleteProject(p) ==
  /\ p \in projects
  /\ projects' = projects \ {p} /\ leaving' = leaving \cup {p}
  /\ outrun' = IF Writing(p) # {} THEN outrun \cup {p} ELSE outrun
  /\ UNCHANGED <<store, minted, upload, today, swept>>

\* delete_project_data.
DeleteData(p) ==
  /\ p \in leaving
  /\ Cascade({i \in Ids : Stored(i) /\ imports[i].project = p})
  /\ leaving' = leaving \ {p}
  /\ UNCHANGED <<projects, minted, upload, today, swept, outrun>>

\* The server stops and starts: requests are lost, and create_app purges.
Restart ==
  /\ upload' = [u \in Uploads |-> Idle] /\ leaving' = {}
  /\ outrun' = outrun \cup leaving
  /\ Purge
  /\ UNCHANGED <<projects, minted, today>>

Midnight ==
  /\ today < MaxDay /\ today' = today + 1
  /\ UNCHANGED <<projects, leaving, store, minted, upload, swept, outrun>>

Next ==
  \/ \E u \in Uploads :
       \/ \E p \in Projects, f \in Files : Receive(u, p, f)
       \/ Parse(u) \/ LookForDuplicate(u) \/ Insert(u) \/ Reread(u) \/ PurgeAndAnswer(u)
  \/ \E i \in Ids : DeleteImport(i)
  \/ \E p \in Projects : DeleteProject(p) \/ DeleteData(p)
  \/ Restart \/ Midnight

Spec == Init /\ [][Next]_vars

----------------------------------------------------------------------------
(* Reading: what the tab shows for the days from..to of a project. *)

Candidates(p, d) == {i \in Ids : Stored(i) /\ imports[i].project = p /\ <<i, d>> \in days}
\* winners: the most lines, then the newest.
Wins(i, j, d) == LET n(k) == DayLines[imports[k].file][d] IN n(i) > n(j) \/ (n(i) = n(j) /\ i >= j)
Winner(p, d) == CHOOSE i \in Candidates(p, d) : \A j \in Candidates(p, d) : Wins(i, j, d)
Covered(p) == {d \in 0..MaxDay : Candidates(p, d) # {}}
\* hits: the rows of the import that wins the day.
Shown(p) == {r \in hits : r[2] \in Covered(p) /\ r[1] = Winner(p, r[2])}

----------------------------------------------------------------------------
(* Properties. *)

TypeOK ==
  /\ projects \subseteq Projects /\ leaving \subseteq Projects /\ outrun \subseteq Projects
  /\ imports \in [Ids -> Imports \cup {NoImport}]
  /\ days \subseteq Ids \X (0..MaxDay) /\ hits \subseteq Ids \X (0..MaxDay)
  /\ minted \in 0..MaxImports /\ today \in 0..MaxDay /\ swept \in Int
  /\ upload \in [Uploads -> [at : {"idle", "received", "parsed", "new", "recorded", "read"},
       project : Projects \cup {"none"}, file : Files \cup {"none"}, id : 0..MaxImports]]

\* "Re-uploading the same file is refused rather than double counted": however
\* uploads overlap, no content is in a project twice, purged imports included.
ContentOnce ==
  \A i, j \in Ids : Stored(i) /\ Stored(j) /\ i # j
    => imports[i].project # imports[j].project \/ imports[i].file # imports[j].file

\* A deleted project leaves no import behind, unless an upload was past its
\* last look at the project, or a crash came between the two deletions; and no
\* day or hit outlives its import.
NothingLeftBehind ==
  /\ \A i \in Ids : Stored(i) => imports[i].project \in projects \cup leaving \cup outrun
  /\ \A r \in days \cup hits : Stored(r[1])

\* "Retention keys on the log day": a row from before the last purge's cutoff
\* was brought by an upload that still has its own purge before it.
RetentionKept ==
  \A r \in days \cup hits : r[2] < swept =>
    \E u \in Uploads : upload[u].id = r[1] /\ upload[u].at \in {"recorded", "read"}

\* "Per day, the import with the most parsed lines wins": a stored hit is left
\* out of the tab only for another import that covers its day; it does not fall
\* on a day that counts as "no log for this day".
HiddenOnlyByWinner ==
  \A r \in hits : LET p == imports[r[1]].project IN
    r \in Shown(p) \/ (r[2] \in Covered(p) /\ Winner(p, r[2]) # r[1])
=============================================================================
