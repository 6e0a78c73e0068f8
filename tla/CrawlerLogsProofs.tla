------------------------- MODULE CrawlerLogsProofs -------------------------
(***************************************************************************)
(* What holds of CrawlerLogs for every number of projects, uploads and     *)
(* days, all contents and every retention.                                 *)
(***************************************************************************)
EXTENDS CrawlerLogs, AccessLog, FoldTheorems, SequenceTheorems, TLAPS

\* What brings an import into a project that still exists, or whose deletion the
\* upload outran.
WriterInv ==
  \A u \in Uploads : upload[u].at \in {"parsed", "new"} => upload[u].project \in projects \cup outrun

\* An upload past its first step has a project and a file, and one that is about to
\* write has an id.
UploadInv ==
  \A u \in Uploads :
    /\ upload[u].at # "idle" => upload[u].project \in Projects /\ upload[u].file \in Files
    /\ upload[u].at \in {"new", "recorded", "read"} => upload[u].id \in Ids

IInv == TypeOK /\ UploadInv /\ WriterInv /\ ContentOnce /\ NothingLeftBehind /\ RetentionKept

\* The invariant holds initially.
LEMMA InitInvariant == ConstantsAssumption /\ Init => IInv
<1> SUFFICES ASSUME ConstantsAssumption, Init PROVE IInv
  OBVIOUS
<1>1. /\ projects = Projects /\ leaving = {} /\ outrun = {} /\ days = {} /\ hits = {} /\ minted = 0
      /\ imports = [i \in Ids |-> NoImport] /\ upload = [u \in Uploads |-> Idle]
      /\ today = FirstDay /\ swept = FirstDay - Retention
  BY DEF Init
<1>2. \A i \in Ids : ~ Stored(i)
  BY <1>1 DEF Stored
<1>3. \A u \in Uploads : upload[u] = Idle
  BY <1>1
<1>4. TypeOK
  BY <1>1 DEF TypeOK, ConstantsAssumption, Idle
<1>5. UploadInv /\ WriterInv
  BY <1>3 DEF UploadInv, WriterInv, Idle
<1>6. ContentOnce /\ NothingLeftBehind /\ RetentionKept
  BY <1>1, <1>2 DEF ContentOnce, NothingLeftBehind, RetentionKept
<1> QED BY <1>4, <1>5, <1>6 DEF IInv

\* An upload goes on, or ends, and nothing else changes: what may have waited for
\* its purge is then gone.
LEMMA UploadMoves ==
  ASSUME ConstantsAssumption, IInv, NEW u \in Uploads, NEW record,
         record \in [at : {"idle", "received", "parsed", "new", "recorded", "read"},
                     project : Projects \cup {"none"}, file : Files \cup {"none"}, id : 0..MaxImports],
         record.at # "idle" => record.project \in Projects /\ record.file \in Files,
         record.at \in {"new", "recorded", "read"} => record.id \in Ids,
         record.at \in {"parsed", "new"} => record.project \in projects \cup outrun,
         upload[u].at \in {"recorded", "read"} =>
           \/ record.at \in {"recorded", "read"} /\ record.id = upload[u].id
           \/ \A r \in days \cup hits : r[2] < swept => r[1] # upload[u].id,
         upload' = [upload EXCEPT ![u] = record],
         minted' \in 0..MaxImports, UNCHANGED <<projects, leaving, store, today, swept, outrun>>
  PROVE  IInv'
<1>1. /\ \A v \in Uploads : upload'[v] = IF v = u THEN record ELSE upload[v]
      /\ upload' \in [Uploads -> [at : {"idle", "received", "parsed", "new", "recorded", "read"},
           project : Projects \cup {"none"}, file : Files \cup {"none"}, id : 0..MaxImports]]
  BY DEF IInv, TypeOK
<1>2. UNCHANGED <<projects, leaving, imports, days, hits, today, swept, outrun>>
  BY DEF store
<1>3. TypeOK'
  BY <1>1, <1>2 DEF IInv, TypeOK
<1>4. UploadInv' /\ WriterInv'
  BY <1>1, <1>2 DEF IInv, UploadInv, WriterInv
<1>5. ContentOnce' /\ NothingLeftBehind'
  BY <1>2 DEF IInv, ContentOnce, NothingLeftBehind, Stored
<1>6. RetentionKept'
  <2> SUFFICES ASSUME NEW r \in days \cup hits, r[2] < swept
               PROVE  \E v \in Uploads : upload'[v].id = r[1] /\ upload'[v].at \in {"recorded", "read"}
    BY <1>2 DEF RetentionKept
  <2>1. PICK v \in Uploads : upload[v].id = r[1] /\ upload[v].at \in {"recorded", "read"}
    BY DEF IInv, RetentionKept
  <2>2. CASE v = u
    BY <1>1, <2>1, <2>2
  <2>3. CASE v # u
    BY <1>1, <2>1, <2>3
  <2> QED BY <2>2, <2>3
<1> QED BY <1>3, <1>4, <1>5, <1>6 DEF IInv

\* An upload that is dropped before it wrote leaves the invariant alone.
LEMMA DropKeeps ==
  ASSUME ConstantsAssumption, IInv, NEW u \in Uploads, Drop(u),
         \A r \in days \cup hits : r[2] < swept => r[1] # upload[u].id \/ upload[u].at \notin {"recorded", "read"},
         minted' \in 0..MaxImports, UNCHANGED <<projects, leaving, store, today, swept, outrun>>
  PROVE  IInv'
<1>1. upload' = [upload EXCEPT ![u] = Idle]
  BY DEF Drop
<1>2. Idle.at = "idle" /\ Idle \in [at : {"idle", "received", "parsed", "new", "recorded", "read"},
        project : Projects \cup {"none"}, file : Files \cup {"none"}, id : 0..MaxImports]
  BY DEF Idle, ConstantsAssumption
<1> QED BY <1>1, <1>2, UploadMoves

\* The steps before an upload writes.
LEMMA ReceiveKeeps ==
  ASSUME ConstantsAssumption, IInv, NEW u \in Uploads, NEW p \in Projects, NEW f \in Files, Receive(u, p, f)
  PROVE  IInv'
<1> DEFINE record == [at |-> "received", project |-> p, file |-> f, id |-> 0]
<1>1. /\ upload[u].at = "idle" /\ upload' = [upload EXCEPT ![u] = record] /\ minted' = minted
      /\ UNCHANGED <<projects, leaving, store, today, swept, outrun>>
  BY DEF Receive, Idle
<1>2. /\ record \in [at : {"idle", "received", "parsed", "new", "recorded", "read"},
                     project : Projects \cup {"none"}, file : Files \cup {"none"}, id : 0..MaxImports]
      /\ record.at = "received" /\ record.project = p /\ record.file = f
  BY DEF ConstantsAssumption
<1>3. minted' \in 0..MaxImports
  BY <1>1 DEF IInv, TypeOK
<1> HIDE DEF record
<1> QED BY <1>1, <1>2, <1>3, UploadMoves

\* Only `at` changes.
LEMMA GoKeeps ==
  ASSUME ConstantsAssumption, IInv, NEW u \in Uploads, NEW to \in {"parsed", "read"}, Go(u, to),
         upload[u].at # "idle",
         to = "parsed" => upload[u].at = "received" /\ upload[u].project \in projects,
         to = "read" => upload[u].at = "recorded",
         UNCHANGED <<projects, leaving, store, minted, today, swept, outrun>>
  PROVE  IInv'
<1> DEFINE record == [upload[u] EXCEPT !.at = to]
<1>1. upload' = [upload EXCEPT ![u] = record] /\ minted' \in 0..MaxImports
  BY DEF Go, IInv, TypeOK
<1>2. upload[u] \in [at : {"idle", "received", "parsed", "new", "recorded", "read"},
        project : Projects \cup {"none"}, file : Files \cup {"none"}, id : 0..MaxImports]
  BY DEF IInv, TypeOK
<1>3. /\ record \in [at : {"idle", "received", "parsed", "new", "recorded", "read"},
                     project : Projects \cup {"none"}, file : Files \cup {"none"}, id : 0..MaxImports]
      /\ record.at = to /\ record.project = upload[u].project /\ record.file = upload[u].file
      /\ record.id = upload[u].id
  BY <1>2
<1>4. upload[u].project \in Projects /\ upload[u].file \in Files /\ (to = "read" => upload[u].id \in Ids)
  BY DEF IInv, UploadInv
<1> HIDE DEF record
<1> QED BY <1>1, <1>3, <1>4, UploadMoves

LEMMA ParseKeeps ==
  ASSUME ConstantsAssumption, IInv, NEW u \in Uploads, Parse(u)
  PROVE  IInv'
<1>1. /\ upload[u].at = "received" /\ UNCHANGED <<projects, leaving, store, minted, today, swept, outrun>>
      /\ (upload[u].project \in projects /\ Go(u, "parsed")) \/ Drop(u)
  BY DEF Parse
<1>2. minted' \in 0..MaxImports
  BY <1>1 DEF IInv, TypeOK
<1> QED BY <1>1, <1>2, GoKeeps, DropKeeps

LEMMA LookForDuplicateKeeps ==
  ASSUME ConstantsAssumption, IInv, NEW u \in Uploads, LookForDuplicate(u)
  PROVE  IInv'
<1> DEFINE record == [upload[u] EXCEPT !.at = "new", !.id = minted + 1]
<1>1. /\ upload[u].at = "parsed" /\ minted < MaxImports /\ minted' = minted + 1
      /\ UNCHANGED <<projects, leaving, store, today, swept, outrun>>
      /\ Drop(u) \/ upload' = [upload EXCEPT ![u] = record]
  BY DEF LookForDuplicate
<1>2. minted' \in 0..MaxImports /\ minted + 1 \in Ids
  BY <1>1 DEF IInv, TypeOK, ConstantsAssumption, Ids
<1>3. upload[u] \in [at : {"idle", "received", "parsed", "new", "recorded", "read"},
        project : Projects \cup {"none"}, file : Files \cup {"none"}, id : 0..MaxImports]
  BY DEF IInv, TypeOK
<1>4. /\ record \in [at : {"idle", "received", "parsed", "new", "recorded", "read"},
                     project : Projects \cup {"none"}, file : Files \cup {"none"}, id : 0..MaxImports]
      /\ record.at = "new" /\ record.project = upload[u].project /\ record.file = upload[u].file
      /\ record.id \in Ids
  BY <1>1, <1>2, <1>3
<1>5. upload[u].project \in Projects /\ upload[u].file \in Files /\ upload[u].project \in projects \cup outrun
  BY <1>1 DEF IInv, UploadInv, WriterInv
<1> HIDE DEF record
<1>6. CASE Drop(u)
  BY <1>1, <1>2, <1>6, DropKeeps
<1>7. CASE upload' = [upload EXCEPT ![u] = record]
  BY <1>1, <1>2, <1>4, <1>5, <1>7, UploadMoves
<1> QED BY <1>1, <1>6, <1>7

\* record_import writes an import that its project does not have, all its rows with
\* it, and the upload that wrote them has its purge before it.
LEMMA InsertKeeps ==
  ASSUME ConstantsAssumption, IInv, NEW u \in Uploads, Insert(u)
  PROVE  IInv'
<1>1. PICK i \in Ids, p \in Projects, f \in Files :
        i = upload[u].id /\ p = upload[u].project /\ f = upload[u].file
  BY DEF Insert, IInv, UploadInv
<1>2. /\ upload[u].at = "new" /\ p \in projects \cup outrun
      /\ UNCHANGED <<projects, leaving, minted, today, swept, outrun>>
  BY <1>1 DEF Insert, IInv, WriterInv
<1>3. CASE Drop(u) /\ UNCHANGED store
  <2>1. minted' \in 0..MaxImports
    BY <1>2 DEF IInv, TypeOK
  <2> QED BY <1>2, <1>3, <2>1, DropKeeps
<1>4. CASE /\ SameContent(p, f) = {}
           /\ imports' = [imports EXCEPT ![i] = [project |-> p, file |-> f, purged |-> FALSE]]
           /\ Rows(i, f) /\ Go(u, "recorded")
  <2>1. /\ \A v \in Uploads : v # u => upload'[v] = upload[v]
        /\ upload'[u].at = "recorded" /\ upload'[u].id = i /\ upload'[u].project = p /\ upload'[u].file = f
        /\ upload' \in [Uploads -> [at : {"idle", "received", "parsed", "new", "recorded", "read"},
             project : Projects \cup {"none"}, file : Files \cup {"none"}, id : 0..MaxImports]]
    BY <1>1, <1>4 DEF Go, IInv, TypeOK
  <2>2. /\ imports' \in [Ids -> Imports \cup {NoImport}]
        /\ imports'[i].project = p /\ imports'[i].file = f
        /\ \A k \in Ids : k # i => imports'[k] = imports[k]
    <3>1. [project |-> p, file |-> f, purged |-> FALSE] \in Imports
      BY <1>2 DEF Imports
    <3> QED BY <1>2, <1>4, <3>1 DEF IInv, TypeOK
  <2>3. Stored(i)' /\ \A k \in Ids : k # i => (Stored(k)' <=> Stored(k))
    <3>1. NoImport.project = "none" /\ p # "none"
      BY DEF NoImport, ConstantsAssumption
    <3>2. Stored(i)'
      BY <2>2, <3>1 DEF Stored
    <3>3. \A k \in Ids : k # i => (Stored(k)' <=> Stored(k))
      BY <2>2 DEF Stored
    <3> QED BY <3>2, <3>3
  <2>4. /\ days' \subseteq Ids \X (0..MaxDay) /\ hits' \subseteq Ids \X (0..MaxDay)
        /\ \A r \in days' \cup hits' : r \in days \cup hits \/ r[1] = i
    <3>1. DOMAIN DayLines[f] \subseteq 0..MaxDay /\ HitDays[f] \subseteq 0..MaxDay
      BY <1>2 DEF ConstantsAssumption
    <3>2. days \subseteq Ids \X (0..MaxDay) /\ hits \subseteq Ids \X (0..MaxDay)
      BY DEF IInv, TypeOK
    <3> QED BY <1>2, <1>4, <3>1, <3>2 DEF Rows
  <2>5. TypeOK'
    BY <1>2, <2>1, <2>2, <2>4 DEF IInv, TypeOK
  <2>6. UploadInv' /\ WriterInv'
    BY <1>2, <2>1 DEF IInv, UploadInv, WriterInv
  <2>7. ContentOnce'
    <3> SUFFICES ASSUME NEW j \in Ids, NEW k \in Ids, Stored(j)', Stored(k)', j # k,
                        imports'[j].project = imports'[k].project, imports'[j].file = imports'[k].file
                 PROVE  FALSE
      BY DEF ContentOnce
    <3>1. CASE j # i /\ k # i
      BY <2>2, <2>3, <3>1 DEF IInv, ContentOnce
    <3>2. CASE j = i \/ k = i
      <4>1. PICK other \in Ids : Stored(other) /\ imports[other].project = p /\ imports[other].file = f
        BY <2>2, <2>3, <3>2
      <4> QED BY <1>4, <4>1 DEF SameContent
    <3> QED BY <3>1, <3>2
  <2>8. NothingLeftBehind'
    <3>1. \A k \in Ids : Stored(k)' => imports'[k].project \in projects' \cup leaving' \cup outrun'
      BY <1>2, <2>2, <2>3 DEF IInv, NothingLeftBehind
    <3>2. \A r \in days' \cup hits' : Stored(r[1])'
      <4> SUFFICES ASSUME NEW r \in days' \cup hits' PROVE Stored(r[1])'
        OBVIOUS
      <4>1. r[1] \in Ids
        BY <2>4
      <4>2. r \in days \cup hits => Stored(r[1])
        BY DEF IInv, NothingLeftBehind
      <4> QED BY <2>3, <2>4, <4>1, <4>2
    <3> QED BY <3>1, <3>2 DEF NothingLeftBehind
  <2>9. RetentionKept'
    <3> SUFFICES ASSUME NEW r \in days' \cup hits', r[2] < swept
                 PROVE  \E v \in Uploads : upload'[v].id = r[1] /\ upload'[v].at \in {"recorded", "read"}
      BY <1>2 DEF RetentionKept
    <3>1. CASE r[1] = i
      BY <2>1, <3>1
    <3>2. CASE r \in days \cup hits
      <4>1. PICK v \in Uploads : upload[v].id = r[1] /\ upload[v].at \in {"recorded", "read"}
        BY <3>2 DEF IInv, RetentionKept
      <4> QED BY <1>2, <2>1, <4>1
    <3> QED BY <2>4, <3>1, <3>2
  <2> QED BY <2>5, <2>6, <2>7, <2>8, <2>9 DEF IInv
<1> QED BY <1>1, <1>3, <1>4 DEF Insert

\* The read of the row just written: if it is gone, so are all its rows.
LEMMA RereadKeeps ==
  ASSUME ConstantsAssumption, IInv, NEW u \in Uploads, Reread(u)
  PROVE  IInv'
<1>1. /\ upload[u].at = "recorded" /\ UNCHANGED <<projects, leaving, store, minted, today, swept, outrun>>
      /\ Go(u, "read") \/ (~ Stored(upload[u].id) /\ Drop(u))
  BY DEF Reread
<1>2. minted' \in 0..MaxImports
  BY <1>1 DEF IInv, TypeOK
<1>3. CASE Go(u, "read")
  BY <1>1, <1>3, GoKeeps
<1>4. CASE ~ Stored(upload[u].id) /\ Drop(u)
  <2>1. \A r \in days \cup hits : r[1] # upload[u].id
    BY <1>4 DEF IInv, NothingLeftBehind
  <2> QED BY <1>1, <1>2, <1>4, <2>1, DropKeeps
<1> QED BY <1>1, <1>3, <1>4

\* What a purge leaves: the same imports, and no row from before its cutoff.
LEMMA PurgeLeaves ==
  ASSUME ConstantsAssumption, IInv, Purge
  PROVE  /\ imports' \in [Ids -> Imports \cup {NoImport}]
         /\ \A i \in Ids : /\ Stored(i)' <=> Stored(i)
                           /\ Stored(i) => imports'[i].project = imports[i].project /\ imports'[i].file = imports[i].file
         /\ days' \subseteq days /\ hits' \subseteq hits /\ swept' \in Int
         /\ \A r \in days' \cup hits' : ~ (r[2] < swept')
<1>1. /\ hits' = {r \in hits : r[2] >= Cutoff} /\ days' = {r \in days : r[2] >= Cutoff} /\ swept' = Cutoff
      /\ imports' = [i \in Ids |->
           IF Stored(i) /\ \A r \in Kept(days) : r[1] # i THEN [imports[i] EXCEPT !.purged = TRUE] ELSE imports[i]]
  BY DEF Purge, Kept
<1>2. Cutoff \in Int
  BY DEF Cutoff, IInv, TypeOK, ConstantsAssumption
<1>3. ASSUME NEW i \in Ids
      PROVE  /\ imports'[i] \in Imports \cup {NoImport}
             /\ Stored(i)' <=> Stored(i)
             /\ Stored(i) => imports'[i].project = imports[i].project /\ imports'[i].file = imports[i].file
  <2>1. CASE imports'[i] = imports[i]
    BY <2>1 DEF IInv, TypeOK, Stored
  <2>2. CASE Stored(i) /\ imports'[i] = [imports[i] EXCEPT !.purged = TRUE]
    <3>1. imports[i] \in Imports
      BY <2>2 DEF IInv, TypeOK, Stored
    <3>2. imports'[i] \in Imports /\ imports'[i].project = imports[i].project /\ imports'[i].file = imports[i].file
      BY <2>2, <3>1 DEF Imports
    <3>3. imports'[i].project # "none" /\ NoImport.project = "none"
      BY <3>1, <3>2 DEF Imports, NoImport, ConstantsAssumption
    <3> QED BY <2>2, <3>2, <3>3 DEF Stored
  <2> QED BY <1>1, <2>1, <2>2
<1>4. imports' \in [Ids -> Imports \cup {NoImport}]
  BY <1>1, <1>3
<1>5. days \subseteq Ids \X (0..MaxDay) /\ hits \subseteq Ids \X (0..MaxDay)
  BY DEF IInv, TypeOK
<1>6. \A r \in days' \cup hits' : ~ (r[2] < swept')
  BY <1>1, <1>2, <1>5
<1> QED BY <1>1, <1>2, <1>3, <1>4, <1>6

\* A purge, with uploads that drop out or stay as they are.
LEMMA PurgeKeeps ==
  ASSUME ConstantsAssumption, IInv, Purge, \A u \in Uploads : upload'[u] = upload[u] \/ upload'[u] = Idle,
         upload' \in [Uploads -> [at : {"idle", "received", "parsed", "new", "recorded", "read"},
           project : Projects \cup {"none"}, file : Files \cup {"none"}, id : 0..MaxImports]],
         leaving' \subseteq leaving, outrun \subseteq outrun', outrun' \subseteq outrun \cup leaving,
         leaving \subseteq leaving' \cup outrun', UNCHANGED <<projects, minted, today>>
  PROVE  IInv'
<1>1. TypeOK'
  BY PurgeLeaves DEF IInv, TypeOK
<1>2. UploadInv' /\ WriterInv'
  BY DEF IInv, UploadInv, WriterInv, Idle
<1>3. ContentOnce'
  BY PurgeLeaves DEF IInv, ContentOnce
<1>4. NothingLeftBehind'
  <2>1. \A i \in Ids : Stored(i)' => imports'[i].project \in projects' \cup leaving' \cup outrun'
    BY PurgeLeaves DEF IInv, NothingLeftBehind
  <2>2. \A r \in days' \cup hits' : r[1] \in Ids /\ Stored(r[1])
    BY PurgeLeaves DEF IInv, NothingLeftBehind, TypeOK
  <2>3. \A r \in days' \cup hits' : Stored(r[1])'
    BY <2>2, PurgeLeaves
  <2> QED BY <2>1, <2>3 DEF NothingLeftBehind
<1>5. RetentionKept'
  BY PurgeLeaves DEF RetentionKept
<1> QED BY <1>1, <1>2, <1>3, <1>4, <1>5 DEF IInv

LEMMA PurgeAndAnswerKeeps ==
  ASSUME ConstantsAssumption, IInv, NEW u \in Uploads, PurgeAndAnswer(u)
  PROVE  IInv'
<1>1. Purge /\ upload' = [upload EXCEPT ![u] = Idle] /\ UNCHANGED <<projects, leaving, minted, today, outrun>>
  BY DEF PurgeAndAnswer, Drop
<1>2. Idle \in [at : {"idle", "received", "parsed", "new", "recorded", "read"},
        project : Projects \cup {"none"}, file : Files \cup {"none"}, id : 0..MaxImports]
  BY DEF Idle, ConstantsAssumption
<1>3. /\ \A v \in Uploads : upload'[v] = upload[v] \/ upload'[v] = Idle
      /\ upload' \in [Uploads -> [at : {"idle", "received", "parsed", "new", "recorded", "read"},
           project : Projects \cup {"none"}, file : Files \cup {"none"}, id : 0..MaxImports]]
  BY <1>1, <1>2 DEF IInv, TypeOK
<1> QED BY <1>1, <1>3, PurgeKeeps

\* The requests in flight at a restart are gone, and create_app purges.
LEMMA RestartKeeps == ConstantsAssumption /\ IInv /\ Restart => IInv'
<1> SUFFICES ASSUME ConstantsAssumption, IInv, Restart PROVE IInv'
  OBVIOUS
<1>1. /\ Purge /\ upload' = [u \in Uploads |-> Idle] /\ leaving' = {} /\ outrun' = outrun \cup leaving
      /\ UNCHANGED <<projects, minted, today>>
  BY DEF Restart
<1>2. Idle \in [at : {"idle", "received", "parsed", "new", "recorded", "read"},
        project : Projects \cup {"none"}, file : Files \cup {"none"}, id : 0..MaxImports]
  BY DEF Idle, ConstantsAssumption
<1>3. /\ \A v \in Uploads : upload'[v] = upload[v] \/ upload'[v] = Idle
      /\ upload' \in [Uploads -> [at : {"idle", "received", "parsed", "new", "recorded", "read"},
           project : Projects \cup {"none"}, file : Files \cup {"none"}, id : 0..MaxImports]]
  BY <1>1, <1>2
<1> QED BY <1>1, <1>3, PurgeKeeps

\* Deleted imports take their rows with them (ON DELETE CASCADE).
LEMMA CascadeKeeps ==
  ASSUME ConstantsAssumption, IInv, NEW gone \in SUBSET Ids, Cascade(gone),
         leaving' \subseteq leaving,
         \A i \in Ids : Stored(i) /\ i \notin gone /\ imports[i].project \in leaving
           => imports[i].project \in projects \cup leaving' \cup outrun,
         UNCHANGED <<projects, minted, upload, today, swept, outrun>>
  PROVE  IInv'
<1>1. /\ imports' = [i \in Ids |-> IF i \in gone THEN NoImport ELSE imports[i]]
      /\ days' = {r \in days : r[1] \notin gone} /\ hits' = {r \in hits : r[1] \notin gone}
  BY DEF Cascade
<1>2. \A i \in Ids : /\ Stored(i)' <=> Stored(i) /\ i \notin gone
                     /\ Stored(i)' => imports'[i] = imports[i]
  BY <1>1 DEF Stored
<1>3. TypeOK'
  BY <1>1 DEF IInv, TypeOK
<1>4. UploadInv' /\ WriterInv'
  BY DEF IInv, UploadInv, WriterInv
<1>5. ContentOnce'
  BY <1>2 DEF IInv, ContentOnce
<1>6. NothingLeftBehind'
  <2>1. \A i \in Ids : Stored(i)' => imports'[i].project \in projects' \cup leaving' \cup outrun'
    BY <1>2 DEF IInv, NothingLeftBehind
  <2>2. \A r \in days' \cup hits' : r[1] \in Ids /\ Stored(r[1]) /\ r[1] \notin gone
    BY <1>1 DEF IInv, NothingLeftBehind, TypeOK
  <2>3. \A r \in days' \cup hits' : Stored(r[1])'
    BY <1>2, <2>2
  <2> QED BY <2>1, <2>3 DEF NothingLeftBehind
<1>7. RetentionKept'
  BY <1>1 DEF IInv, RetentionKept
<1> QED BY <1>3, <1>4, <1>5, <1>6, <1>7 DEF IInv

\* The three deletions.
LEMMA DeletionKeeps ==
  ASSUME ConstantsAssumption, IInv,
         (\E i \in Ids : DeleteImport(i)) \/ \E p \in Projects : DeleteProject(p) \/ DeleteData(p)
  PROVE  IInv'
<1>1. ASSUME NEW i \in Ids, DeleteImport(i) PROVE IInv'
  <2>1. /\ {i} \in SUBSET Ids /\ Cascade({i}) /\ leaving' = leaving
        /\ UNCHANGED <<projects, minted, upload, today, swept, outrun>>
    BY <1>1 DEF DeleteImport
  <2> QED BY <2>1, CascadeKeeps
<1>2. ASSUME NEW p \in Projects, DeleteProject(p) PROVE IInv'
  <2>1. /\ projects' = projects \ {p} /\ leaving' = leaving \cup {p}
        /\ outrun' = IF Writing(p) # {} THEN outrun \cup {p} ELSE outrun
        /\ UNCHANGED <<imports, days, hits, minted, upload, today, swept>>
    BY <1>2 DEF DeleteProject, store
  <2>2. TypeOK'
    BY <2>1 DEF IInv, TypeOK
  <2>3. UploadInv'
    BY <2>1 DEF IInv, UploadInv
  <2>4. WriterInv'
    <3> SUFFICES ASSUME NEW u \in Uploads, upload[u].at \in {"parsed", "new"}
                 PROVE  upload[u].project \in projects' \cup outrun'
      BY <2>1 DEF WriterInv
    <3>1. CASE upload[u].project = p
      <4>1. u \in Writing(p)
        BY <3>1 DEF Writing
      <4> QED BY <2>1, <3>1, <4>1
    <3>2. CASE upload[u].project # p
      BY <2>1, <3>2 DEF IInv, WriterInv
    <3> QED BY <3>1, <3>2
  <2>5. ContentOnce' /\ NothingLeftBehind' /\ RetentionKept'
    BY <2>1 DEF IInv, ContentOnce, NothingLeftBehind, RetentionKept, Stored
  <2> QED BY <2>2, <2>3, <2>4, <2>5 DEF IInv
<1>3. ASSUME NEW p \in Projects, DeleteData(p) PROVE IInv'
  <2> DEFINE gone == {i \in Ids : Stored(i) /\ imports[i].project = p}
  <2>1. /\ gone \in SUBSET Ids /\ Cascade(gone) /\ leaving' = leaving \ {p}
        /\ UNCHANGED <<projects, minted, upload, today, swept, outrun>>
    BY <1>3 DEF DeleteData
  <2>2. \A i \in Ids : Stored(i) /\ i \notin gone /\ imports[i].project \in leaving
          => imports[i].project \in projects \cup leaving' \cup outrun
    BY <2>1
  <2> HIDE DEF gone
  <2> QED BY <2>1, <2>2, CascadeKeeps
<1> QED BY <1>1, <1>2, <1>3

\* Every step keeps the invariant.
LEMMA NextKeeps == ConstantsAssumption /\ IInv /\ [Next]_vars => IInv'
<1> SUFFICES ASSUME ConstantsAssumption, IInv, [Next]_vars PROVE IInv'
  OBVIOUS
<1>1. ASSUME NEW u \in Uploads,
             \/ \E p \in Projects, f \in Files : Receive(u, p, f)
             \/ Parse(u) \/ LookForDuplicate(u) \/ Insert(u) \/ Reread(u) \/ PurgeAndAnswer(u)
      PROVE  IInv'
  BY <1>1, ReceiveKeeps, ParseKeeps, LookForDuplicateKeeps, InsertKeeps, RereadKeeps, PurgeAndAnswerKeeps
<1>2. CASE (\E i \in Ids : DeleteImport(i)) \/ \E p \in Projects : DeleteProject(p) \/ DeleteData(p)
  BY <1>2, DeletionKeeps
<1>3. CASE Restart
  BY <1>3, RestartKeeps
<1>4. CASE Midnight
  <2>1. today' \in 0..MaxDay /\ UNCHANGED <<projects, leaving, imports, days, hits, minted, upload, swept, outrun>>
    BY <1>4 DEF Midnight, store, IInv, TypeOK, ConstantsAssumption
  <2> QED BY <2>1 DEF IInv, TypeOK, UploadInv, WriterInv, ContentOnce, NothingLeftBehind, RetentionKept, Stored
<1>5. CASE UNCHANGED vars
  BY <1>5 DEF vars, store, IInv, TypeOK, UploadInv, WriterInv, ContentOnce, NothingLeftBehind, RetentionKept, Stored
<1> QED BY <1>1, <1>2, <1>3, <1>4, <1>5 DEF Next

\* The invariant holds of every reachable state.
LEMMA Invariance == Spec => []IInv
<1>1. Init => IInv
  BY ConstantsAssumption, InitInvariant
<1>2. IInv /\ [Next]_vars => IInv'
  BY ConstantsAssumption, NextKeeps
<1> QED BY <1>1, <1>2, PTL DEF Spec

\* Every variable of the log store keeps its type in every reachable state.
THEOREM TypeCorrect == Spec => []TypeOK
<1>1. IInv => TypeOK
  BY DEF IInv
<1> QED BY <1>1, Invariance, PTL

\* However uploads overlap, deletions and purges included, a project never has one
\* content twice.
THEOREM ContentOnceAlways == Spec => []ContentOnce
<1>1. IInv => ContentOnce
  BY DEF IInv
<1> QED BY <1>1, Invariance, PTL

\* A deleted project's imports go with it unless an upload or a crash cut across the
\* deletion, and no row outlives its import.
THEOREM NothingLeftBehindAlways == Spec => []NothingLeftBehind
<1>1. IInv => NothingLeftBehind
  BY DEF IInv
<1> QED BY <1>1, Invariance, PTL

\* No row from before the last purge's cutoff is stored, but for those of an upload
\* that has its own purge before it.
THEOREM RetentionKeptAlways == Spec => []RetentionKept
<1>1. IInv => RetentionKept
  BY DEF IInv
<1> QED BY <1>1, Invariance, PTL

\* Coverage goes by the day a line was written with and hits by its UTC day.  In logs
\* written at UTC, each hit falls on a day that its import covers.
UtcLogs == \A f \in Files : HitDays[f] \subseteq DOMAIN DayLines[f]

\* Each step keeps the hits on covered days: they are written, purged and deleted
\* together with the coverage.
LEMMA HitsCovered ==
  ASSUME UtcLogs, IInv, hits \subseteq days, [Next]_vars
  PROVE  hits' \subseteq days'
<1>1. ASSUME Purge PROVE hits' \subseteq days'
  BY <1>1 DEF Purge, Kept
<1>2. ASSUME NEW gone, Cascade(gone) PROVE hits' \subseteq days'
  BY <1>2 DEF Cascade
<1>3. ASSUME UNCHANGED store PROVE hits' \subseteq days'
  BY <1>3 DEF store
<1>4. ASSUME NEW u \in Uploads, Insert(u) PROVE hits' \subseteq days'
  <2>1. upload[u].file \in Files
    BY <1>4 DEF Insert, IInv, UploadInv
  <2>2. UNCHANGED store \/ Rows(upload[u].id, upload[u].file)
    BY <1>4 DEF Insert
  <2>3. HitDays[upload[u].file] \subseteq DOMAIN DayLines[upload[u].file]
    BY <2>1 DEF UtcLogs
  <2> QED BY <1>3, <2>2, <2>3 DEF Rows
<1>5. ASSUME NEW u \in Uploads, NEW p \in Projects, NEW f \in Files, Receive(u, p, f) PROVE hits' \subseteq days'
  BY <1>3, <1>5 DEF Receive
<1>6. ASSUME NEW u \in Uploads, Parse(u) \/ LookForDuplicate(u) \/ Reread(u) PROVE hits' \subseteq days'
  BY <1>3, <1>6 DEF Parse, LookForDuplicate, Reread
<1>7. ASSUME NEW u \in Uploads, PurgeAndAnswer(u) PROVE hits' \subseteq days'
  BY <1>1, <1>7 DEF PurgeAndAnswer
<1>8. ASSUME NEW i \in Ids, DeleteImport(i) PROVE hits' \subseteq days'
  BY <1>2, <1>8 DEF DeleteImport
<1>9. ASSUME NEW p \in Projects, DeleteProject(p) \/ DeleteData(p) PROVE hits' \subseteq days'
  BY <1>2, <1>3, <1>9 DEF DeleteProject, DeleteData
<1>10. CASE Restart \/ Midnight \/ UNCHANGED vars
  BY <1>1, <1>3, <1>10 DEF Restart, Midnight, vars
<1> QED BY <1>4, <1>5, <1>6, <1>7, <1>8, <1>9, <1>10 DEF Next

\* With logs written at UTC, a stored hit is left out of the tab only for another import
\* that covers its day.
THEOREM HiddenOnlyByWinnerAlways == ASSUME UtcLogs PROVE Spec => []HiddenOnlyByWinner
<1>1. Init => hits \subseteq days
  BY DEF Init
<1>2. IInv /\ hits \subseteq days /\ [Next]_vars => (hits \subseteq days)'
  BY HitsCovered
<1>3. IInv /\ hits \subseteq days => HiddenOnlyByWinner
  <2> SUFFICES ASSUME IInv, hits \subseteq days, NEW r \in hits
               PROVE  LET p == imports[r[1]].project IN
                      r \in Shown(p) \/ (r[2] \in Covered(p) /\ Winner(p, r[2]) # r[1])
    BY DEF HiddenOnlyByWinner
  <2>1. PICK i \in Ids, d \in 0..MaxDay : r = <<i, d>>
    BY DEF IInv, TypeOK
  <2>2. Stored(i) /\ <<i, d>> \in days
    BY <2>1 DEF IInv, NothingLeftBehind
  <2>3. d \in Covered(imports[i].project)
    BY <2>2 DEF Covered, Candidates
  <2> QED BY <2>1, <2>3 DEF Shown
<1> QED BY <1>1, <1>2, <1>3, Invariance, PTL DEF Spec

-----------------------------------------------------------------------------
(* What one log becomes: AccessLog, for every log, however long.           *)

LEMMA PlusAdds ==
  ASSUME NEW D, NEW f \in Tallies(D), NEW k \in D, NEW n \in Int
  PROVE  Plus(f, k, n) \in Tallies(D) /\ SumFunction(f) \in Int /\ SumFunction(Plus(f, k, n)) = SumFunction(f) + n
<1>1. PICK S : f \in [S -> Int]
  BY DEF Tallies
<1>2. Tallied(f, k, n, Plus(f, k, n))
  BY <1>1 DEF Tallied, Plus
<1> QED BY <1>2, SumTally

\* The entries a log may have: its lines, and its lines without their comma.
Wide(Lines) == Lines \cup {[l EXCEPT !.comma = FALSE] : l \in Lines}
Formats == {"none", "combined", "cloudflare", "array"}
DayTables(Lines) == Tallies({LocalDay(l) : l \in Wide(Lines)})
TextSets(Lines) == SUBSET {l.text : l \in Wide(Lines)}
LineState(Lines) ==
  [format : Formats, lines : Nat, parsed : Nat, unparsed : Nat, duplicates : Nat, skipped : Nat, noUrl : Nat,
   days : DayTables(Lines), seen : TextSets(Lines), hits : Seq(Wide(Lines)), buffer : Seq(Lines), refused : BOOLEAN]
RequestsBalance(st, owed) == st.parsed = (Len(st.hits) + st.skipped + st.noUrl) + owed
DaysBalance(st) == st.parsed = SumFunction(st.days)
\* What holds of the requests whenever an entry has been parsed.
Split(st) == RequestsBalance(st, 0) /\ DaysBalance(st)

\* The types of the counters.
Numbers(st) ==
  /\ st.lines \in Nat /\ st.parsed \in Nat /\ st.unparsed \in Nat /\ st.duplicates \in Nat
  /\ st.skipped \in Nat /\ st.noUrl \in Nat /\ Len(st.hits) \in Nat /\ st.refused \in BOOLEAN /\ st.format \in Formats
LEMMA LineNumbers ==
  ASSUME NEW Lines, NEW st \in LineState(Lines)
  PROVE  Numbers(st) /\ st.days \in DayTables(Lines) /\ st.seen \in TextSets(Lines) /\ st.hits \in Seq(Wide(Lines))
         /\ st.buffer \in Seq(Lines)
BY DEF LineState, Numbers

\* Two states that agree but for one field.
But(u, st, field) ==
  /\ field # "format" => u.format = st.format
  /\ field # "lines" => u.lines = st.lines
  /\ field # "parsed" => u.parsed = st.parsed
  /\ field # "unparsed" => u.unparsed = st.unparsed
  /\ field # "duplicates" => u.duplicates = st.duplicates
  /\ field # "skipped" => u.skipped = st.skipped
  /\ field # "noUrl" => u.noUrl = st.noUrl
  /\ field # "days" => u.days = st.days
  /\ field # "seen" => u.seen = st.seen
  /\ field # "hits" => u.hits = st.hits
  /\ field # "buffer" => u.buffer = st.buffer
  /\ field # "refused" => u.refused = st.refused

\* One field changes and the others stay.
LEMMA FormatSet ==
  ASSUME NEW Lines, NEW st \in LineState(Lines), NEW n \in Formats, NEW u, u = [st EXCEPT !.format = n]
  PROVE  u \in LineState(Lines) /\ u.format = n /\ But(u, st, "format")
<1>1. u \in LineState(Lines)
  BY DEF LineState
<1>2. u.format = n /\ But(u, st, "format")
  BY DEF LineState, But
<1> QED BY <1>1, <1>2

LEMMA LinesSet ==
  ASSUME NEW Lines, NEW st \in LineState(Lines), NEW n \in Nat, NEW u, u = [st EXCEPT !.lines = n]
  PROVE  u \in LineState(Lines) /\ u.lines = n /\ But(u, st, "lines")
<1>1. u \in LineState(Lines)
  BY DEF LineState
<1>2. u.lines = n /\ But(u, st, "lines")
  BY DEF LineState, But
<1> QED BY <1>1, <1>2

LEMMA ParsedSet ==
  ASSUME NEW Lines, NEW st \in LineState(Lines), NEW n \in Nat, NEW u, u = [st EXCEPT !.parsed = n]
  PROVE  u \in LineState(Lines) /\ u.parsed = n /\ But(u, st, "parsed")
<1>1. u \in LineState(Lines)
  BY DEF LineState
<1>2. u.parsed = n /\ But(u, st, "parsed")
  BY DEF LineState, But
<1> QED BY <1>1, <1>2

LEMMA UnparsedSet ==
  ASSUME NEW Lines, NEW st \in LineState(Lines), NEW n \in Nat, NEW u, u = [st EXCEPT !.unparsed = n]
  PROVE  u \in LineState(Lines) /\ u.unparsed = n /\ But(u, st, "unparsed")
<1>1. u \in LineState(Lines)
  BY DEF LineState
<1>2. u.unparsed = n /\ But(u, st, "unparsed")
  BY DEF LineState, But
<1> QED BY <1>1, <1>2

LEMMA DuplicatesSet ==
  ASSUME NEW Lines, NEW st \in LineState(Lines), NEW n \in Nat, NEW u, u = [st EXCEPT !.duplicates = n]
  PROVE  u \in LineState(Lines) /\ u.duplicates = n /\ But(u, st, "duplicates")
<1>1. u \in LineState(Lines)
  BY DEF LineState
<1>2. u.duplicates = n /\ But(u, st, "duplicates")
  BY DEF LineState, But
<1> QED BY <1>1, <1>2

LEMMA SkippedSet ==
  ASSUME NEW Lines, NEW st \in LineState(Lines), NEW n \in Nat, NEW u, u = [st EXCEPT !.skipped = n]
  PROVE  u \in LineState(Lines) /\ u.skipped = n /\ But(u, st, "skipped")
<1>1. u \in LineState(Lines)
  BY DEF LineState
<1>2. u.skipped = n /\ But(u, st, "skipped")
  BY DEF LineState, But
<1> QED BY <1>1, <1>2

LEMMA NoUrlSet ==
  ASSUME NEW Lines, NEW st \in LineState(Lines), NEW n \in Nat, NEW u, u = [st EXCEPT !.noUrl = n]
  PROVE  u \in LineState(Lines) /\ u.noUrl = n /\ But(u, st, "noUrl")
<1>1. u \in LineState(Lines)
  BY DEF LineState
<1>2. u.noUrl = n /\ But(u, st, "noUrl")
  BY DEF LineState, But
<1> QED BY <1>1, <1>2

LEMMA DaysSet ==
  ASSUME NEW Lines, NEW st \in LineState(Lines), NEW n \in DayTables(Lines), NEW u, u = [st EXCEPT !.days = n]
  PROVE  u \in LineState(Lines) /\ u.days = n /\ But(u, st, "days")
<1>1. u \in LineState(Lines)
  BY DEF LineState
<1>2. u.days = n /\ But(u, st, "days")
  BY DEF LineState, But
<1> QED BY <1>1, <1>2

LEMMA SeenSet ==
  ASSUME NEW Lines, NEW st \in LineState(Lines), NEW n \in TextSets(Lines), NEW u, u = [st EXCEPT !.seen = n]
  PROVE  u \in LineState(Lines) /\ u.seen = n /\ But(u, st, "seen")
<1>1. u \in LineState(Lines)
  BY DEF LineState
<1>2. u.seen = n /\ But(u, st, "seen")
  BY DEF LineState, But
<1> QED BY <1>1, <1>2

LEMMA HitsSet ==
  ASSUME NEW Lines, NEW st \in LineState(Lines), NEW n \in Seq(Wide(Lines)), NEW u, u = [st EXCEPT !.hits = n]
  PROVE  u \in LineState(Lines) /\ u.hits = n /\ But(u, st, "hits")
<1>1. u \in LineState(Lines)
  BY DEF LineState
<1>2. u.hits = n /\ But(u, st, "hits")
  BY DEF LineState, But
<1> QED BY <1>1, <1>2

LEMMA BufferSet ==
  ASSUME NEW Lines, NEW st \in LineState(Lines), NEW n \in Seq(Lines), NEW u, u = [st EXCEPT !.buffer = n]
  PROVE  u \in LineState(Lines) /\ u.buffer = n /\ But(u, st, "buffer")
<1>1. u \in LineState(Lines)
  BY DEF LineState
<1>2. u.buffer = n /\ But(u, st, "buffer")
  BY DEF LineState, But
<1> QED BY <1>1, <1>2

LEMMA RefusedSet ==
  ASSUME NEW Lines, NEW st \in LineState(Lines), NEW n \in BOOLEAN, NEW u, u = [st EXCEPT !.refused = n]
  PROVE  u \in LineState(Lines) /\ u.refused = n /\ But(u, st, "refused")
<1>1. u \in LineState(Lines)
  BY DEF LineState
<1>2. u.refused = n /\ But(u, st, "refused")
  BY DEF LineState, But
<1> QED BY <1>1, <1>2

LEMMA RequestCounted ==
  ASSUME NEW Lines, NEW st \in LineState(Lines), Split(st), NEW l \in Wide(Lines), NEW u, u = Request(st, l)
  PROVE  /\ u \in LineState(Lines) /\ Split(u) /\ u.parsed = st.parsed + 1
         /\ u.lines = st.lines /\ u.unparsed = st.unparsed /\ u.duplicates = st.duplicates /\ u.seen = st.seen
         /\ u.format = st.format /\ u.buffer = st.buffer /\ u.refused = st.refused
<1> DEFINE more == Plus(st.days, LocalDay(l), 1)
           n == st.parsed + 1
           once == [st EXCEPT !.parsed = n]
           timed == [once EXCEPT !.days = more]
           longer == Append(st.hits, l)
<1>1. more \in DayTables(Lines) /\ SumFunction(st.days) \in Int /\ SumFunction(more) = SumFunction(st.days) + 1
  <2> DEFINE D == {LocalDay(x) : x \in Wide(Lines)}
  <2>1. st.days \in Tallies(D) /\ LocalDay(l) \in D /\ DayTables(Lines) = Tallies(D)
    BY LineNumbers DEF DayTables
  <2> HIDE DEF D
  <2> QED BY <2>1, PlusAdds
<1>2. longer \in Seq(Wide(Lines)) /\ Len(longer) = Len(st.hits) + 1
  BY LineNumbers
<1>3. n \in Nat /\ n = st.parsed + 1 /\ Numbers(st)
  BY LineNumbers DEF Numbers
<1>4. u \in {[timed EXCEPT !.skipped = timed.skipped + 1], [timed EXCEPT !.noUrl = timed.noUrl + 1],
             [timed EXCEPT !.hits = Append(timed.hits, l)]}
  BY DEF Request
<1> HIDE DEF more, n, longer
<1>5. once \in LineState(Lines) /\ once.parsed = n /\ But(once, st, "parsed")
  BY <1>3, ParsedSet
<1> HIDE DEF once
<1>6. timed \in LineState(Lines) /\ timed.days = more /\ But(timed, once, "days")
  BY <1>1, <1>5, DaysSet
<1> HIDE DEF timed
<1>7. /\ timed.parsed = n /\ timed.lines = st.lines /\ timed.unparsed = st.unparsed /\ timed.duplicates = st.duplicates
      /\ timed.skipped = st.skipped /\ timed.noUrl = st.noUrl /\ timed.seen = st.seen /\ timed.hits = st.hits
      /\ timed.format = st.format /\ timed.buffer = st.buffer /\ timed.refused = st.refused
  BY <1>5, <1>6 DEF But
<1>8. st.parsed = Len(st.hits) + st.skipped + st.noUrl /\ n = SumFunction(more)
  BY <1>1, <1>3 DEF Split, RequestsBalance, DaysBalance, Numbers
<1>9. CASE u = [timed EXCEPT !.skipped = timed.skipped + 1]
  <2>1. timed.skipped + 1 \in Nat
    BY <1>3, <1>7 DEF Numbers
  <2>2. u \in LineState(Lines) /\ u.skipped = timed.skipped + 1 /\ But(u, timed, "skipped")
    BY <1>6, <1>9, <2>1, SkippedSet
  <2>3. Split(u)
    <3>1. timed.parsed = (Len(timed.hits) + (timed.skipped + 1) + timed.noUrl) + 0
      <4>1. timed.parsed = st.parsed + 1 /\ timed.skipped = st.skipped /\ timed.noUrl = st.noUrl /\ timed.hits = st.hits
            /\ st.skipped \in Nat /\ st.noUrl \in Nat /\ Len(st.hits) \in Nat
        BY <1>3, <1>7 DEF Numbers
      <4> QED BY <1>8, <4>1
    <3>2. RequestsBalance(u, 0)
      BY <2>2, <3>1, Zenon DEF RequestsBalance, But
    <3>3. DaysBalance(u)
      BY <1>6, <1>7, <1>8, <2>2 DEF DaysBalance, But
    <3> QED BY <3>2, <3>3 DEF Split
  <2> QED BY <1>3, <1>7, <2>2, <2>3 DEF But
<1>10. CASE u = [timed EXCEPT !.noUrl = timed.noUrl + 1]
  <2>1. timed.noUrl + 1 \in Nat
    BY <1>3, <1>7 DEF Numbers
  <2>2. u \in LineState(Lines) /\ u.noUrl = timed.noUrl + 1 /\ But(u, timed, "noUrl")
    BY <1>6, <1>10, <2>1, NoUrlSet
  <2>3. Split(u)
    <3>1. timed.parsed = (Len(timed.hits) + timed.skipped + (timed.noUrl + 1)) + 0
      BY <1>3, <1>7, <1>8 DEF Numbers
    <3>2. RequestsBalance(u, 0)
      BY <2>2, <3>1, Zenon DEF RequestsBalance, But
    <3>3. DaysBalance(u)
      BY <1>6, <1>7, <1>8, <2>2 DEF DaysBalance, But
    <3> QED BY <3>2, <3>3 DEF Split
  <2> QED BY <1>3, <1>7, <2>2, <2>3 DEF But
<1>11. CASE u = [timed EXCEPT !.hits = Append(timed.hits, l)]
  <2>1. u = [timed EXCEPT !.hits = longer]
    BY <1>7, <1>11 DEF longer
  <2>2. u \in LineState(Lines) /\ u.hits = longer /\ But(u, timed, "hits")
    BY <1>2, <1>6, <2>1, HitsSet
  <2>3. Split(u)
    <3>1. timed.parsed = (Len(longer) + timed.skipped + timed.noUrl) + 0
      BY <1>2, <1>3, <1>7, <1>8 DEF Numbers
    <3>2. RequestsBalance(u, 0)
      BY <2>2, <3>1, Zenon DEF RequestsBalance, But
    <3>3. DaysBalance(u)
      BY <1>6, <1>7, <1>8, <2>2 DEF DaysBalance, But
    <3> QED BY <3>2, <3>3 DEF Split
  <2> QED BY <1>3, <1>7, <2>2, <2>3 DEF But
<1> QED BY <1>4, <1>9, <1>10, <1>11

\* An entry is parsed, unparsed or badly timed, or refuses the import.
Entry(st, u, l) ==
  \/ u.parsed = st.parsed + 1 /\ u.unparsed = st.unparsed
  \/ u.parsed = st.parsed /\ u.unparsed = st.unparsed + 1
  \/ u.parsed = st.parsed /\ u.unparsed = st.unparsed /\ l.form = "badtime"

LEMMA EntryCounted ==
  ASSUME NEW Lines, NEW st \in LineState(Lines), Split(st), NEW l \in Wide(Lines), NEW format, NEW u, u = ParseEntry(st, l, format)
  PROVE  /\ u \in LineState(Lines) /\ (~ u.refused => Split(u) /\ Entry(st, u, l))
         /\ u.lines = st.lines /\ u.duplicates = st.duplicates /\ u.seen = st.seen
         /\ u.format = st.format /\ u.buffer = st.buffer
<1> DEFINE n == st.unparsed + 1
<1>1. n \in Nat /\ n = st.unparsed + 1 /\ Numbers(st)
  BY LineNumbers DEF Numbers
<1>2. \/ u = [st EXCEPT !.unparsed = n]
      \/ u = [st EXCEPT !.refused = TRUE]
      \/ u = st /\ l.form = "badtime"
      \/ u = Request(st, l)
  BY DEF ParseEntry
<1> HIDE DEF n
<1>3. CASE u = [st EXCEPT !.unparsed = n]
  <2>1. u \in LineState(Lines) /\ u.unparsed = n /\ But(u, st, "unparsed")
    BY <1>1, <1>3, UnparsedSet
  <2> QED BY <1>1, <2>1 DEF But, Split, RequestsBalance, DaysBalance, Entry
<1>4. CASE u = [st EXCEPT !.refused = TRUE]
  <2>1. u \in LineState(Lines) /\ u.refused /\ But(u, st, "refused")
    BY <1>4, RefusedSet
  <2> QED BY <2>1 DEF But
<1>5. CASE u = st /\ l.form = "badtime"
  BY <1>5 DEF Entry
<1>6. CASE u = Request(st, l)
  <2>1. /\ u \in LineState(Lines) /\ Split(u) /\ u.parsed = st.parsed + 1
        /\ u.lines = st.lines /\ u.unparsed = st.unparsed /\ u.duplicates = st.duplicates /\ u.seen = st.seen
        /\ u.format = st.format /\ u.buffer = st.buffer /\ u.refused = st.refused
    BY <1>6, RequestCounted
  <2> QED BY <2>1 DEF Entry
<1> QED BY <1>2, <1>3, <1>4, <1>5, <1>6

Counted(st) == st.parsed + st.unparsed + st.duplicates
\* One more in a part is one more in the sum.
Moved(a, b, c) ==
  /\ (a + 1) + b + c = (a + b + c) + 1 /\ a + (b + 1) + c = (a + b + c) + 1 /\ a + b + (c + 1) = (a + b + c) + 1
  /\ a + b + c \in Nat /\ a <= a + 1
LEMMA OneMoreOf ==
  ASSUME NEW a \in Nat, NEW b \in Nat, NEW c \in Nat
  PROVE  Moved(a, b, c)
BY DEF Moved
LEMMA CountedMoves ==
  ASSUME NEW Lines, NEW st \in LineState(Lines), NEW u
  PROVE  /\ Counted(st) \in Nat /\ st.lines \in Nat /\ st.parsed \in Nat
         /\ u.parsed = st.parsed /\ u.unparsed = st.unparsed + 1 /\ u.duplicates = st.duplicates => Counted(u) = Counted(st) + 1
         /\ u.parsed = st.parsed /\ u.unparsed = st.unparsed /\ u.duplicates = st.duplicates + 1 => Counted(u) = Counted(st) + 1
         /\ u.parsed = st.parsed + 1 /\ u.unparsed = st.unparsed /\ u.duplicates = st.duplicates => Counted(u) = Counted(st) + 1
         /\ u.parsed = st.parsed /\ u.unparsed = st.unparsed /\ u.duplicates = st.duplicates => Counted(u) = Counted(st)
<1>1. st.lines \in Nat /\ st.parsed \in Nat /\ st.unparsed \in Nat /\ st.duplicates \in Nat
  BY LineNumbers DEF Numbers
<1>2. Moved(st.parsed, st.unparsed, st.duplicates)
  BY <1>1, OneMoreOf
<1> QED BY <1>1, <1>2, Zenon DEF Counted, Moved

\* What holds after some lines, n of them badly timed.
LogGood(st, n) ==
  ~ st.refused =>
    /\ Split(st) /\ (st.format \in {"none", "array"} => st.parsed = 0)
    /\ st.buffer # <<>> <=> st.format = "array"
    /\ st.buffer = <<>> => Counted(st) <= st.lines /\ st.lines <= Counted(st) + n

LEMMA LineCounted ==
  ASSUME NEW Lines, NEW st \in LineState(Lines), NEW n \in Nat, NEW m \in Nat, LogGood(st, n),
         NEW l \in Lines, n <= m, l.form = "badtime" => m = n + 1, NEW u, u = ReadLine(st, l)
  PROVE  u \in LineState(Lines) /\ LogGood(u, m)
<1> DEFINE k == st.lines + 1
           read == [st EXCEPT !.lines = k]
           texts == read.seen \cup {l.text}
           fresh == [read EXCEPT !.seen = texts]
           format == IF st.format = "none" THEN Sniffed(l) ELSE st.format
           kept == [fresh EXCEPT !.format = format]
           more == read.unparsed + 1
           twice == read.duplicates + 1
           longer == Append(kept.buffer, l)
<1>1. \/ u = st
      \/ ~ st.refused /\ u = [read EXCEPT !.unparsed = more]
      \/ ~ st.refused /\ u = [read EXCEPT !.duplicates = twice]
      \/ ~ st.refused /\ format = "array" /\ u = [kept EXCEPT !.buffer = longer]
      \/ ~ st.refused /\ format # "array" /\ u = ParseEntry(kept, l, format)
  BY DEF ReadLine
<1>2. Numbers(st) /\ k \in Nat /\ k = st.lines + 1 /\ l \in Wide(Lines)
  <2>1. Numbers(st)
    BY LineNumbers
  <2>2. st.lines + 1 \in Nat
    BY <2>1 DEF Numbers
  <2> QED BY <2>1, <2>2 DEF Wide
<1>3. format \in Formats \ {"none"} /\ (st.format # "none" => format = st.format)
  BY <1>2 DEF Sniffed, Formats, Numbers
<1> HIDE DEF format, k
<1>4. read \in LineState(Lines) /\ read.lines = k /\ But(read, st, "lines")
  BY <1>2, LinesSet
<1> HIDE DEF read
<1>5. more \in Nat /\ more = read.unparsed + 1 /\ twice \in Nat /\ twice = read.duplicates + 1
  BY <1>4, LineNumbers DEF Numbers
<1>6. texts \in TextSets(Lines)
  BY <1>2, <1>4, LineNumbers DEF TextSets
<1> HIDE DEF more, twice, texts
<1>7. fresh \in LineState(Lines) /\ But(fresh, read, "seen")
  BY <1>4, <1>6, SeenSet
<1> HIDE DEF fresh
<1>8. kept \in LineState(Lines) /\ kept.format = format /\ But(kept, fresh, "format")
  BY <1>3, <1>7, FormatSet
<1> HIDE DEF kept
<1>9. longer \in Seq(Lines) /\ longer # <<>>
  <2>1. kept.buffer \in Seq(Lines)
    BY <1>8, LineNumbers
  <2>2. Append(kept.buffer, l) \in Seq(Lines) /\ Len(Append(kept.buffer, l)) = Len(kept.buffer) + 1 /\ Len(kept.buffer) \in Nat
    BY <2>1
  <2>3. longer # <<>>
    BY <2>2
  <2> QED BY <2>2, <2>3
<1> HIDE DEF longer
<1>10. CASE u = st
  BY <1>2, <1>10 DEF LogGood, Counted, Numbers
<1>11. CASE ~ st.refused /\ u = [read EXCEPT !.unparsed = more]
  <2>1. u \in LineState(Lines) /\ u.unparsed = more /\ But(u, read, "unparsed")
    BY <1>4, <1>5, <1>11, UnparsedSet
  <2>2. /\ u.lines = st.lines + 1 /\ Counted(u) = Counted(st) + 1 /\ Counted(st) \in Nat /\ st.lines \in Nat
        /\ u.parsed = st.parsed /\ u.format = st.format /\ u.buffer = st.buffer /\ u.refused = st.refused
    BY <1>2, <1>4, <1>5, <2>1, CountedMoves DEF But
  <2>3. u.skipped = st.skipped /\ u.noUrl = st.noUrl /\ u.hits = st.hits /\ u.days = st.days
    BY <1>4, <2>1 DEF But
  <2>4. Split(st) => Split(u)
    BY <2>2, <2>3 DEF Split, RequestsBalance, DaysBalance
  <2>5. Counted(st) <= st.lines /\ st.lines <= Counted(st) + n => Counted(u) <= u.lines /\ u.lines <= Counted(u) + m
    BY <2>2
  <2> QED BY <1>11, <2>1, <2>2, <2>4, <2>5 DEF LogGood
<1>12. CASE ~ st.refused /\ u = [read EXCEPT !.duplicates = twice]
  <2>1. u \in LineState(Lines) /\ u.duplicates = twice /\ But(u, read, "duplicates")
    BY <1>4, <1>5, <1>12, DuplicatesSet
  <2>2. /\ u.lines = st.lines + 1 /\ Counted(u) = Counted(st) + 1 /\ Counted(st) \in Nat /\ st.lines \in Nat
        /\ u.parsed = st.parsed /\ u.format = st.format /\ u.buffer = st.buffer /\ u.refused = st.refused
    BY <1>2, <1>4, <1>5, <2>1, CountedMoves DEF But
  <2>3. u.skipped = st.skipped /\ u.noUrl = st.noUrl /\ u.hits = st.hits /\ u.days = st.days
    BY <1>4, <2>1 DEF But
  <2>4. Split(st) => Split(u)
    BY <2>2, <2>3 DEF Split, RequestsBalance, DaysBalance
  <2>5. Counted(st) <= st.lines /\ st.lines <= Counted(st) + n => Counted(u) <= u.lines /\ u.lines <= Counted(u) + m
    BY <2>2
  <2> QED BY <1>12, <2>1, <2>2, <2>4, <2>5 DEF LogGood
<1>13. /\ kept.lines = k /\ kept.parsed = st.parsed /\ kept.unparsed = st.unparsed /\ kept.duplicates = st.duplicates
       /\ kept.skipped = st.skipped /\ kept.noUrl = st.noUrl /\ kept.days = st.days /\ kept.hits = st.hits
       /\ kept.buffer = st.buffer /\ kept.refused = st.refused /\ kept.format = format
  BY <1>4, <1>7, <1>8 DEF But
<1>14. ~ st.refused => Split(kept)
  BY <1>13 DEF LogGood, Split, RequestsBalance, DaysBalance
<1>15. CASE ~ st.refused /\ format = "array" /\ u = [kept EXCEPT !.buffer = longer]
  <2>1. u \in LineState(Lines) /\ u.buffer = longer /\ But(u, kept, "buffer")
    BY <1>8, <1>9, <1>15, BufferSet
  <2>2. Split(u)
    BY <1>14, <1>15, <2>1 DEF Split, RequestsBalance, DaysBalance, But
  <2>3. st.format \in {"none", "array"} /\ u.parsed = 0 /\ u.buffer # <<>> /\ u.format = "array"
    BY <1>3, <1>9, <1>13, <1>15, <2>1 DEF LogGood, But
  <2> QED BY <2>1, <2>2, <2>3 DEF LogGood
<1>16. CASE ~ st.refused /\ format # "array" /\ u = ParseEntry(kept, l, format)
  <2>1. /\ u \in LineState(Lines) /\ (~ u.refused => Split(u) /\ Entry(kept, u, l))
        /\ u.lines = kept.lines /\ u.duplicates = kept.duplicates /\ u.seen = kept.seen
        /\ u.format = kept.format /\ u.buffer = kept.buffer
    BY <1>2, <1>8, <1>14, <1>16, EntryCounted
  <2>2. st.format # "array" /\ u.buffer = <<>> /\ u.format \notin {"none", "array"}
    BY <1>3, <1>13, <1>16, <2>1 DEF LogGood
  <2>3. Counted(st) <= st.lines /\ st.lines <= Counted(st) + n
    BY <1>13, <1>16, <2>1, <2>2 DEF LogGood
  <2>4. ~ u.refused => Counted(u) <= u.lines /\ u.lines <= Counted(u) + m
    <3>1. Numbers(u)
      BY <2>1, LineNumbers
    <3>2. u.lines = st.lines + 1 /\ u.duplicates = st.duplicates /\ Numbers(st) /\ kept.parsed = st.parsed /\ kept.unparsed = st.unparsed
      BY <1>2, <1>13, <2>1
    <3>3. ~ u.refused => Counted(u) = Counted(st) + 1 \/ (Counted(u) = Counted(st) /\ m = n + 1)
      BY <2>1, <3>2, CountedMoves DEF Entry
    <3>4. Counted(st) \in Nat /\ st.lines \in Nat
      BY CountedMoves
    <3> QED BY <2>3, <3>2, <3>3, <3>4
  <2> QED BY <2>1, <2>2, <2>4 DEF LogGood
<1> QED BY <1>1, <1>10, <1>11, <1>12, <1>15, <1>16

LEMMA NothingCounted ==
  ASSUME NEW Lines
  PROVE  NoStats \in LineState(Lines) /\ LogGood(NoStats, 0)
<1>1. Nothing \in DayTables(Lines) /\ SumFunction(Nothing) = 0
  BY SumNothing DEF Nothing, DayTables
<1>2. <<>> \in Seq(Wide(Lines)) /\ <<>> \in Seq(Lines) /\ Len(<<>>) = 0 /\ {} \in TextSets(Lines)
  BY DEF TextSets
<1> QED BY <1>1, <1>2 DEF NoStats, LineState, LogGood, Formats, Split, Counted, RequestsBalance, DaysBalance

\* The badly timed ones of some entries, and one entry more.
Late(entries, s) == {i \in s : entries[i].form = "badtime"}
OneMore(entries, s, i) ==
  LET n == Cardinality(Late(entries, s \ {i})) m == Cardinality(Late(entries, s)) IN
  /\ n \in Nat /\ m \in Nat /\ n <= m /\ (entries[i].form = "badtime" => m = n + 1)
  /\ Cardinality(s \ {i}) \in Nat /\ Cardinality(s) = Cardinality(s \ {i}) + 1
LEMMA LateStep ==
  ASSUME NEW entries, NEW s, IsFiniteSet(s), NEW i \in s
  PROVE  OneMore(entries, s, i)
<1> DEFINE a == Late(entries, s)
           b == Late(entries, s \ {i})
<1>1. a \subseteq s /\ b \subseteq a /\ (entries[i].form = "badtime" => i \in a /\ b = a \ {i})
      /\ (entries[i].form # "badtime" => b = a)
  BY DEF Late
<1>2. a = Late(entries, s) /\ b = Late(entries, s \ {i})
  OBVIOUS
<1> HIDE DEF a, b
<1>3. IsFiniteSet(a) /\ IsFiniteSet(b) /\ Cardinality(a) \in Nat /\ Cardinality(b) \in Nat
  BY <1>1, FS_Subset, FS_CardinalityType
<1>4. IsFiniteSet(s \ {i}) /\ Cardinality(s \ {i}) = Cardinality(s) - 1 /\ Cardinality(s) \in Nat
  BY FS_RemoveElement, FS_CardinalityType
<1>5. entries[i].form = "badtime" => Cardinality(b) = Cardinality(a) - 1
  BY <1>1, <1>3, FS_RemoveElement
<1>6. Cardinality(s \ {i}) \in Nat
  BY <1>4, FS_CardinalityType
<1> QED BY <1>1, <1>2, <1>3, <1>4, <1>5, <1>6 DEF OneMore

\* The lines of a log: the fold takes them in their order.
LEMMA LinesCounted ==
  ASSUME NEW Lines, NEW log \in Seq(Lines), NEW st, st = FoldLeft(ReadLine, NoStats, log)
  PROVE  st \in LineState(Lines) /\ LogGood(st, Untimed(log)) /\ Untimed(log) \in Nat
<1> DEFINE D == DOMAIN log
           last(s) == Max(s)
           Solves(t) == t = [s \in SUBSET D |-> IF s = {} THEN NoStats ELSE ReadLine(t[s \ {last(s)}], log[last(s)])]
           pick == [s \in (SUBSET D) \ {{}} |-> Max(s)]
           V == [s \in SUBSET D |-> {st0 \in LineState(Lines) : LogGood(st0, Cardinality(Late(log, s)))}]
           step == [s \in (SUBSET D) \ {{}} |-> [v \in V[s \ {pick[s]}] |-> ReadLine(v, log[last(s)])]]
<1>1. IsFiniteSet(D) /\ D \subseteq Int /\ \A i \in D : log[i] \in Lines
  <2>1. D = 1..Len(log) /\ Len(log) \in Nat
    OBVIOUS
  <2>2. IsFiniteSet(1..Len(log))
    BY <2>1, FS_Interval
  <2> QED BY <2>1, <2>2
<1>2. Untimed(log) = Cardinality(Late(log, D)) /\ Untimed(log) \in Nat
  <2>1. Untimed(log) = Cardinality(Late(log, D))
    BY DEF Untimed, Late
  <2>2. Late(log, D) \subseteq D
    BY DEF Late
  <2> QED BY <1>1, <2>1, <2>2, FS_Subset, FS_CardinalityType
<1> HIDE DEF D
<1>3. Picks(D, pick)
  BY <1>1, MaxPicks
<1>4. \A s \in (SUBSET D) \ {{}} :
        pick[s] = last(s) /\ last(s) \in s /\ \A v \in V[s \ {pick[s]}] : step[s][v] = ReadLine(v, log[last(s)])
  BY <1>3 DEF Picks
<1>5. \A s \in SUBSET D : V[s] = {st0 \in LineState(Lines) : LogGood(st0, Cardinality(Late(log, s)))}
  OBVIOUS
<1>6. ASSUME NEW s \in (SUBSET D) \ {{}}, NEW v \in V[s \ {pick[s]}]
      PROVE  ReadLine(v, log[last(s)]) \in V[s]
  <2> DEFINE i == last(s)
             r == s \ {i}
  <2>1. i \in s /\ s \in SUBSET D /\ r \in SUBSET D /\ pick[s] = i /\ log[i] \in Lines
    BY <1>1, <1>4
  <2>2. v \in V[r]
    BY <1>6, <2>1
  <2>3. IsFiniteSet(s)
    BY <1>1, <2>1, FS_Subset
  <2>4. OneMore(log, s, i)
    BY <2>1, <2>3, LateStep
  <2> HIDE DEF i, V
  <2>5. v \in LineState(Lines) /\ LogGood(v, Cardinality(Late(log, r)))
    BY <1>5, <2>1, <2>2
  <2>6. ReadLine(v, log[i]) \in LineState(Lines) /\ LogGood(ReadLine(v, log[i]), Cardinality(Late(log, s)))
    <3> DEFINE n == Cardinality(Late(log, r))
               m == Cardinality(Late(log, s))
    <3>1. n \in Nat /\ m \in Nat /\ n <= m /\ (log[i].form = "badtime" => m = n + 1)
      BY <2>4 DEF OneMore
    <3>2. LogGood(v, n)
      BY <2>5
    <3> HIDE DEF n, m
    <3>3. ReadLine(v, log[i]) \in LineState(Lines) /\ LogGood(ReadLine(v, log[i]), m)
      BY <2>1, <2>5, <3>1, <3>2, LineCounted
    <3> QED BY <3>3 DEF m
  <2> QED BY <1>5, <2>1, <2>6 DEF i
<1>7. NoStats \in V[{}]
  <2>1. Late(log, {}) = {} /\ Cardinality({}) = 0
    BY FS_EmptySet DEF Late
  <2> QED BY <1>5, <2>1, NothingCounted
<1> HIDE DEF V, pick, step, last
<1>8. Stays(D, pick, NoStats, step, V)
  <2>1. ASSUME NEW s \in (SUBSET D) \ {{}}, NEW v \in V[s \ {pick[s]}] PROVE step[s][v] \in V[s]
    BY <1>4, <1>6, <2>1
  <2> QED BY <1>7, <2>1 DEF Stays
<1>9. ASSUME NEW t PROVE /\ IsFold(D, pick, NoStats, step, t) => FoldsIn(D, pick, NoStats, step, V, t)
                         /\ Solves(t) => FoldsIn(D, pick, NoStats, step, V, t)
  <2>1. ASSUME Solves(t), NEW s \in (SUBSET D) \ {{}}, t[s \ {pick[s]}] \in V[s \ {pick[s]}]
        PROVE  t[s] = step[s][t[s \ {pick[s]}]]
    <3>1. t[s] = ReadLine(t[s \ {last(s)}], log[last(s)])
      BY <2>1
    <3> HIDE DEF Solves
    <3> QED BY <1>4, <2>1, <3>1
  <2>2. Solves(t) => t[{}] = NoStats
    OBVIOUS
  <2>3. Solves(t) => FoldsIn(D, pick, NoStats, step, V, t)
    <3> HIDE DEF Solves
    <3> QED BY <2>1, <2>2 DEF FoldsIn
  <2>4. IsFold(D, pick, NoStats, step, t) => FoldsIn(D, pick, NoStats, step, V, t)
    BY DEF IsFold, FoldsIn
  <2> QED BY <2>3, <2>4
<1>10. \E t : Solves(t)
  <2>1. PICK t : IsFold(D, pick, NoStats, step, t)
    BY <1>1, <1>3, FoldExists
  <2>2. \A s \in SUBSET D : t[s] \in V[s]
    BY <1>1, <1>3, <1>8, <1>9, <2>1, FoldStays
  <2>3. \A s \in (SUBSET D) \ {{}} : s \ {pick[s]} \in SUBSET D
    OBVIOUS
  <2>4. \A s \in (SUBSET D) \ {{}} : step[s][t[s \ {pick[s]}]] = ReadLine(t[s \ {last(s)}], log[last(s)])
    BY <1>4, <2>2, <2>3
  <2>5. Solves(t)
    BY <2>1, <2>4 DEF IsFold
  <2> QED BY <2>5
<1> DEFINE u == CHOOSE t : Solves(t)
<1>11. Solves(u)
  <2> HIDE DEF Solves
  <2> QED BY <1>10
<1>12. FoldLeft(ReadLine, NoStats, log) = u[D]
  BY DEF FoldLeft, MapThenFoldSet, last, D
<1> HIDE DEF u, Solves
<1>13. u[D] \in V[D]
  BY <1>1, <1>3, <1>8, <1>9, <1>11, FoldStays
<1>14. st \in LineState(Lines) /\ LogGood(st, Cardinality(Late(log, D)))
  BY <1>5, <1>12, <1>13
<1> QED BY <1>2, <1>14

\* What holds after k records of an array, n of them badly timed.
RecordsGood(st, first, k, n) ==
  /\ st.buffer = first.buffer
  /\ ~ st.refused => Split(st) /\ st.lines = first.lines /\ st.parsed <= k /\ k <= Counted(st) + n

LEMMA RecordCounted ==
  ASSUME NEW Lines, NEW first, NEW st \in LineState(Lines), NEW j \in Nat, NEW k, k = j + 1, NEW n \in Nat, NEW m \in Nat,
         RecordsGood(st, first, j, n), NEW l \in Wide(Lines), n <= m, l.form = "badtime" => m = n + 1
  PROVE  ReadRecord(st, l) \in LineState(Lines) /\ RecordsGood(ReadRecord(st, l), first, k, m)
<1> DEFINE u == ReadRecord(st, l)
<1>1. CASE st.refused
  <2>1. u = st
    BY <1>1 DEF ReadRecord
  <2> QED BY <1>1, <2>1 DEF RecordsGood
<1>2. CASE ~ st.refused
  <2>1. u = ParseEntry(st, l, "cloudflare") /\ Split(st)
    BY <1>2 DEF ReadRecord, RecordsGood
  <2> HIDE DEF u
  <2>2. /\ u \in LineState(Lines) /\ (~ u.refused => Split(u) /\ Entry(st, u, l))
        /\ u.lines = st.lines /\ u.duplicates = st.duplicates /\ u.buffer = st.buffer
    BY <2>1, EntryCounted
  <2>3. Numbers(st) /\ Numbers(u)
    BY <2>2, LineNumbers
  <2>4. ~ u.refused => u.parsed <= k /\ k <= Counted(u) + m
    <3>1. st.parsed <= j /\ j <= Counted(st) + n
      BY <1>2 DEF RecordsGood
    <3>2. ~ u.refused => /\ u.parsed <= st.parsed + 1
                         /\ Counted(u) = Counted(st) + 1 \/ (Counted(u) = Counted(st) /\ m = n + 1)
      <4>1. st.parsed \in Nat /\ st.parsed <= st.parsed + 1
        BY <2>3 DEF Numbers
      <4> QED BY <2>2, <4>1, CountedMoves DEF Entry
    <3>3. Counted(st) \in Nat /\ Counted(u) \in Nat /\ st.parsed \in Nat /\ u.parsed \in Nat
      BY <2>2, CountedMoves
    <3> QED BY <3>1, <3>2, <3>3
  <2>5. u \in LineState(Lines) /\ RecordsGood(u, first, k, m)
    BY <1>2, <2>2, <2>4 DEF RecordsGood
  <2> QED BY <2>5 DEF u
<1> QED BY <1>1, <1>2

\* The records of an array, after its lines.
LEMMA RecordsCounted ==
  ASSUME NEW Lines, NEW first \in LineState(Lines), Split(first), first.parsed = 0,
         NEW records \in Seq(Wide(Lines)), first.lines = Len(records), NEW st, st = FoldLeft(ReadRecord, first, records)
  PROVE  st \in LineState(Lines) /\ st.buffer = first.buffer
         /\ (~ st.refused => Split(st) /\ st.parsed <= st.lines /\ st.lines <= Counted(st) + Untimed(records))
<1> DEFINE D == DOMAIN records
           last(s) == Max(s)
           Solves(t) == t = [s \in SUBSET D |-> IF s = {} THEN first ELSE ReadRecord(t[s \ {last(s)}], records[last(s)])]
           pick == [s \in (SUBSET D) \ {{}} |-> Max(s)]
           V == [s \in SUBSET D |-> {st0 \in LineState(Lines) : RecordsGood(st0, first, Cardinality(s), Cardinality(Late(records, s)))}]
           step == [s \in (SUBSET D) \ {{}} |-> [v \in V[s \ {pick[s]}] |-> ReadRecord(v, records[last(s)])]]
<1>1. IsFiniteSet(D) /\ D \subseteq Int /\ \A i \in D : records[i] \in Wide(Lines)
  <2>1. D = 1..Len(records) /\ Len(records) \in Nat
    OBVIOUS
  <2>2. IsFiniteSet(1..Len(records))
    BY <2>1, FS_Interval
  <2> QED BY <2>1, <2>2
<1>2. Untimed(records) = Cardinality(Late(records, D)) /\ Cardinality(D) = first.lines
  <2>1. Untimed(records) = Cardinality(Late(records, D))
    BY DEF Untimed, Late
  <2>2. D = 1..Len(records) /\ Len(records) \in Nat
    OBVIOUS
  <2>3. Cardinality(1..Len(records)) = Len(records)
    <3> DEFINE n == Len(records)
    <3>1. n \in Nat
      BY <2>2
    <3> HIDE DEF n
    <3>2. Cardinality(1..n) = n
      BY <3>1, FS_Interval
    <3> QED BY <3>2 DEF n
  <2> QED BY <2>1, <2>2, <2>3
<1> HIDE DEF D
<1>3. Picks(D, pick)
  BY <1>1, MaxPicks
<1>4. \A s \in (SUBSET D) \ {{}} :
        pick[s] = last(s) /\ last(s) \in s /\ \A v \in V[s \ {pick[s]}] : step[s][v] = ReadRecord(v, records[last(s)])
  BY <1>3 DEF Picks
<1>5. \A s \in SUBSET D : V[s] = {st0 \in LineState(Lines) : RecordsGood(st0, first, Cardinality(s), Cardinality(Late(records, s)))}
  OBVIOUS
<1>6. ASSUME NEW s \in (SUBSET D) \ {{}}, NEW v \in V[s \ {pick[s]}]
      PROVE  ReadRecord(v, records[last(s)]) \in V[s]
  <2> DEFINE i == last(s)
             r == s \ {i}
  <2>1. i \in s /\ s \in SUBSET D /\ r \in SUBSET D /\ pick[s] = i /\ records[i] \in Wide(Lines)
    BY <1>1, <1>4
  <2>2. v \in V[r]
    BY <1>6, <2>1
  <2>3. IsFiniteSet(s)
    BY <1>1, <2>1, FS_Subset
  <2>4. OneMore(records, s, i)
    BY <2>1, <2>3, LateStep
  <2> HIDE DEF i, V
  <2>5. v \in LineState(Lines) /\ RecordsGood(v, first, Cardinality(r), Cardinality(Late(records, r)))
    BY <1>5, <2>1, <2>2
  <2>6. ReadRecord(v, records[i]) \in LineState(Lines)
        /\ RecordsGood(ReadRecord(v, records[i]), first, Cardinality(s), Cardinality(Late(records, s)))
    <3> DEFINE n == Cardinality(Late(records, r))
               m == Cardinality(Late(records, s))
               j == Cardinality(r)
               k == Cardinality(s)
    <3>1. n \in Nat /\ m \in Nat /\ n <= m /\ (records[i].form = "badtime" => m = n + 1) /\ j \in Nat /\ k = j + 1
      BY <2>4 DEF OneMore
    <3>2. RecordsGood(v, first, j, n)
      BY <2>5
    <3> HIDE DEF n, m, j, k
    <3>3. ReadRecord(v, records[i]) \in LineState(Lines) /\ RecordsGood(ReadRecord(v, records[i]), first, k, m)
      BY <2>1, <2>5, <3>1, <3>2, RecordCounted
    <3> QED BY <3>3 DEF m, k
  <2> QED BY <1>5, <2>1, <2>6 DEF i
<1>7. first \in V[{}]
  <2>1. Late(records, {}) = {} /\ Cardinality({}) = 0
    BY FS_EmptySet DEF Late
  <2>2. RecordsGood(first, first, 0, 0)
    BY LineNumbers DEF RecordsGood, Numbers, Counted
  <2> QED BY <1>5, <2>1, <2>2
<1> HIDE DEF V, pick, step, last
<1>8. Stays(D, pick, first, step, V)
  <2>1. ASSUME NEW s \in (SUBSET D) \ {{}}, NEW v \in V[s \ {pick[s]}] PROVE step[s][v] \in V[s]
    BY <1>4, <1>6, <2>1
  <2> QED BY <1>7, <2>1 DEF Stays
<1>9. ASSUME NEW t PROVE /\ IsFold(D, pick, first, step, t) => FoldsIn(D, pick, first, step, V, t)
                         /\ Solves(t) => FoldsIn(D, pick, first, step, V, t)
  <2>1. ASSUME Solves(t), NEW s \in (SUBSET D) \ {{}}, t[s \ {pick[s]}] \in V[s \ {pick[s]}]
        PROVE  t[s] = step[s][t[s \ {pick[s]}]]
    <3>1. t[s] = ReadRecord(t[s \ {last(s)}], records[last(s)])
      BY <2>1
    <3> HIDE DEF Solves
    <3> QED BY <1>4, <2>1, <3>1
  <2>2. Solves(t) => t[{}] = first
    OBVIOUS
  <2>3. Solves(t) => FoldsIn(D, pick, first, step, V, t)
    <3> HIDE DEF Solves
    <3> QED BY <2>1, <2>2 DEF FoldsIn
  <2>4. IsFold(D, pick, first, step, t) => FoldsIn(D, pick, first, step, V, t)
    BY DEF IsFold, FoldsIn
  <2> QED BY <2>3, <2>4
<1>10. \E t : Solves(t)
  <2>1. PICK t : IsFold(D, pick, first, step, t)
    BY <1>1, <1>3, FoldExists
  <2>2. \A s \in SUBSET D : t[s] \in V[s]
    BY <1>1, <1>3, <1>8, <1>9, <2>1, FoldStays
  <2>3. \A s \in (SUBSET D) \ {{}} : s \ {pick[s]} \in SUBSET D
    OBVIOUS
  <2>4. \A s \in (SUBSET D) \ {{}} : step[s][t[s \ {pick[s]}]] = ReadRecord(t[s \ {last(s)}], records[last(s)])
    BY <1>4, <2>2, <2>3
  <2>5. Solves(t)
    BY <2>1, <2>4 DEF IsFold
  <2> QED BY <2>5
<1> DEFINE u == CHOOSE t : Solves(t)
<1>11. Solves(u)
  <2> HIDE DEF Solves
  <2> QED BY <1>10
<1>12. FoldLeft(ReadRecord, first, records) = u[D]
  BY DEF FoldLeft, MapThenFoldSet, last, D
<1> HIDE DEF u, Solves
<1>13. u[D] \in V[D]
  BY <1>1, <1>3, <1>8, <1>9, <1>11, FoldStays
<1>14. st \in LineState(Lines) /\ RecordsGood(st, first, Cardinality(D), Cardinality(Late(records, D)))
  BY <1>5, <1>12, <1>13
<1> QED BY <1>2, <1>14 DEF RecordsGood

\* The log as a whole.
LEMMA LogCounted ==
  ASSUME NEW Lines, NEW log \in Seq(Lines), NEW st, st = IterHits(log)
  PROVE  /\ st \in LineState(Lines)
         /\ ~ st.refused =>
              /\ Split(st) /\ st.lines <= Counted(st) + Untimed(Entered(st, log))
              /\ IF st.buffer = <<>> THEN Counted(st) <= st.lines ELSE st.parsed <= st.lines
<1> DEFINE lines == FoldLeft(ReadLine, NoStats, log)
           all == IF lines.refused \/ lines.buffer = <<>> THEN lines ELSE ParseArray(lines)
<1>1. st = IF Usable(all) THEN all ELSE [all EXCEPT !.refused = TRUE]
  BY DEF IterHits
<1>2. lines \in LineState(Lines) /\ LogGood(lines, Untimed(log))
  BY LinesCounted
<1> HIDE DEF lines
<1>3. /\ all \in LineState(Lines)
      /\ ~ all.refused =>
           /\ Split(all) /\ all.lines <= Counted(all) + Untimed(Entered(all, log))
           /\ IF all.buffer = <<>> THEN Counted(all) <= all.lines ELSE all.parsed <= all.lines
  <2>1. CASE lines.refused \/ lines.buffer = <<>>
    BY <1>2, <2>1 DEF LogGood, Entered
  <2>2. CASE ~ lines.refused /\ lines.buffer # <<>> /\ ~ IsList(lines.buffer)
    <3>1. all = [lines EXCEPT !.refused = TRUE]
      BY <2>2 DEF ParseArray
    <3> HIDE DEF all
    <3>2. all \in LineState(Lines) /\ all.refused
      BY <1>2, <3>1, RefusedSet
    <3> QED BY <3>2
  <2>3. CASE ~ lines.refused /\ lines.buffer # <<>> /\ IsList(lines.buffer)
    <3> DEFINE b == lines.buffer
               records == Records(b)
               n == Len(records)
               first == [lines EXCEPT !.lines = n]
    <3>1. all = FoldLeft(ReadRecord, first, records)
      BY <2>3 DEF ParseArray
    <3>2. b \in Seq(Lines) /\ Len(b) > 1
      BY <1>2, <2>3, LineNumbers DEF IsList
    <3>3. records \in Seq(Wide(Lines)) /\ n \in Nat
      <4>1. Len(b) \in Nat /\ Len(b) - 2 \in Nat
        <5>1. Len(b) \in Nat /\ Len(b) > 1
          BY <3>2, LenProperties
        <5> HIDE DEF b
        <5> QED BY <5>1
      <4> HIDE DEF b
      <4>2. \A i \in 1..(Len(b) - 2) : b[i + 1] \in Lines
        BY <3>2, <4>1
      <4>3. \A i \in 1..(Len(b) - 2) : [b[i + 1] EXCEPT !.comma = FALSE] \in Wide(Lines)
        BY <4>2 DEF Wide
      <4>4. records \in [1..(Len(b) - 2) -> Wide(Lines)]
        BY <4>3 DEF Records
      <4> HIDE DEF records
      <4>5. records \in Seq(Wide(Lines))
        BY <4>1, <4>4
      <4> QED BY <4>5
    <3> HIDE DEF n, records
    <3>4. first \in LineState(Lines) /\ first.lines = n /\ But(first, lines, "lines")
      BY <1>2, <3>3, LinesSet
    <3> HIDE DEF first, all
    <3>5. lines.format = "array" /\ Split(lines) /\ lines.parsed = 0
      BY <1>2, <2>3 DEF LogGood
    <3>6. Split(first) /\ first.parsed = 0 /\ first.buffer = b
      BY <3>4, <3>5 DEF But, Split, RequestsBalance, DaysBalance
    <3>7. first.lines = Len(records)
      BY <3>4 DEF n
    <3>8. /\ all \in LineState(Lines) /\ all.buffer = first.buffer
          /\ (~ all.refused => Split(all) /\ all.parsed <= all.lines /\ all.lines <= Counted(all) + Untimed(records))
      BY <3>1, <3>3, <3>4, <3>6, <3>7, RecordsCounted
    <3>9. all.buffer # <<>> /\ Entered(all, log) = records
      BY <2>3, <3>6, <3>8 DEF Entered, records
    <3> QED BY <3>8, <3>9
  <2> QED BY <2>1, <2>2, <2>3
<1> HIDE DEF all
<1>4. CASE Usable(all)
  BY <1>1, <1>3, <1>4
<1>5. CASE ~ Usable(all)
  <2>1. st = [all EXCEPT !.refused = TRUE]
    BY <1>1, <1>5
  <2>2. st \in LineState(Lines) /\ st.refused
    BY <1>3, <2>1, RefusedSet
  <2> QED BY <2>2
<1> QED BY <1>4, <1>5

\* For every log of every length and each of the three formats, an accepted import
\* counts each line once, or never where only its time is bad, of an array no more
\* records than it has; each parsed entry is a hit or skipped, and the days of the
\* coverage add up to the parsed ones (parser.py's counters).
THEOREM LogLinesAccounted ==
  ASSUME NEW Lines, NEW log \in Seq(Lines)
  PROVE  LinesAccounted(IterHits(log), log)
<1> DEFINE st == IterHits(log)
<1>1. /\ st \in LineState(Lines)
      /\ ~ st.refused =>
           /\ Split(st) /\ st.lines <= Counted(st) + Untimed(Entered(st, log))
           /\ IF st.buffer = <<>> THEN Counted(st) <= st.lines ELSE st.parsed <= st.lines
  BY LogCounted
<1> HIDE DEF st
<1>2. Total(DOMAIN st.days, LAMBDA d : st.days[d]) = SumFunction([d \in DOMAIN st.days |-> st.days[d]])
  BY DEF Total
<1>3. [d \in DOMAIN st.days |-> st.days[d]] = st.days
  BY <1>1, LineNumbers DEF DayTables, Tallies
<1>4. Total(DOMAIN st.days, LAMBDA d : st.days[d]) = SumFunction(st.days)
  BY <1>2, <1>3
<1>5. Numbers(st)
  BY <1>1, LineNumbers
<1>6. ~ st.refused => st.parsed = Len(st.hits) + st.skipped + st.noUrl
  BY <1>1, <1>5 DEF Split, RequestsBalance, Numbers
<1>7. ~ st.refused => st.parsed = SumFunction(st.days)
  BY <1>1 DEF Split, DaysBalance
<1>8. LinesAccounted(st, log)
  BY <1>1, <1>4, <1>6, <1>7, Zenon DEF LinesAccounted, Counted
<1> QED BY <1>8 DEF st

-----------------------------------------------------------------------------
(* What the hits of one log become: the rows, for every list of hits.      *)

Row == [Counts -> Nat]
\* A row's columns agree: each status counts once, a refusal also as blocked.
RowFine(row) ==
  /\ row["s2xx"] + row["s304"] + row["s3xx"] + row["s4xx"] + row["s5xx"] <= row["hits"]
  /\ row["blocked"] <= row["s4xx"] /\ row["verified"] <= row["hits"]

LEMMA BucketsAre ==
  ASSUME NEW status \in Int
  PROVE  Buckets(status) \in {{"s304"}, {"s2xx"}, {"s3xx"}, {"s4xx", "blocked"}, {"s4xx"}, {"s5xx"}, {}}
BY DEF Buckets

LEMMA NoRowFine == NoRow \in Row /\ RowFine(NoRow) /\ NoRow["hits"] = 0
BY DEF NoRow, Row, RowFine, Counts

Pairwise(a, b, c, d, e, f, g, h, i, j) ==
  (a + f) + (b + g) + (c + h) + (d + i) + (e + j) = (a + b + c + d + e) + (f + g + h + i + j)
LEMMA SumsPairwise ==
  ASSUME NEW a \in Nat, NEW b \in Nat, NEW c \in Nat, NEW d \in Nat, NEW e \in Nat,
         NEW f \in Nat, NEW g \in Nat, NEW h \in Nat, NEW i \in Nat, NEW j \in Nat
  PROVE  Pairwise(a, b, c, d, e, f, g, h, i, j)
BY DEF Pairwise

LEMMA RowGrows ==
  ASSUME NEW old \in Row, RowFine(old), NEW w \in Nat, NEW status \in Int, NEW more \in {{}, {"verified"}}, NEW row,
         row = [c \in Counts |-> old[c] + IF c \in Buckets(status) \cup {"hits"} \cup more THEN w ELSE 0]
  PROVE  row \in Row /\ RowFine(row) /\ row["hits"] = old["hits"] + w
<1> DEFINE b == Buckets(status)
           add(c) == IF c \in b \cup {"hits"} \cup more THEN w ELSE 0
<1>1. \A c \in Counts : row[c] = old[c] + add(c) /\ old[c] \in Nat /\ add(c) \in Nat
  BY DEF Row
<1>2. row \in Row
  BY <1>1 DEF Row
<1>3. /\ row["s2xx"] = old["s2xx"] + add("s2xx") /\ old["s2xx"] \in Nat
      /\ row["s304"] = old["s304"] + add("s304") /\ old["s304"] \in Nat
      /\ row["s3xx"] = old["s3xx"] + add("s3xx") /\ old["s3xx"] \in Nat
      /\ row["s4xx"] = old["s4xx"] + add("s4xx") /\ old["s4xx"] \in Nat
      /\ row["s5xx"] = old["s5xx"] + add("s5xx") /\ old["s5xx"] \in Nat
      /\ row["blocked"] = old["blocked"] + add("blocked") /\ old["blocked"] \in Nat
      /\ row["verified"] = old["verified"] + add("verified") /\ old["verified"] \in Nat
      /\ row["hits"] = old["hits"] + add("hits") /\ old["hits"] \in Nat
  BY <1>1 DEF Counts
<1>4. add("hits") = w /\ add("verified") \in {0, w} /\ add("blocked") \in {0, w}
  OBVIOUS
<1>5. /\ add("s2xx") + add("s304") + add("s3xx") + add("s4xx") + add("s5xx") \in {0, w}
      /\ add("blocked") <= add("s4xx")
      /\ add("s2xx") \in Nat /\ add("s304") \in Nat /\ add("s3xx") \in Nat /\ add("s4xx") \in Nat /\ add("s5xx") \in Nat
  BY BucketsAre
<1> HIDE DEF add
<1>6. row["s2xx"] + row["s304"] + row["s3xx"] + row["s4xx"] + row["s5xx"]
      = (old["s2xx"] + old["s304"] + old["s3xx"] + old["s4xx"] + old["s5xx"])
        + (add("s2xx") + add("s304") + add("s3xx") + add("s4xx") + add("s5xx"))
  <2>1. Pairwise(old["s2xx"], old["s304"], old["s3xx"], old["s4xx"], old["s5xx"],
                 add("s2xx"), add("s304"), add("s3xx"), add("s4xx"), add("s5xx"))
    BY <1>3, <1>5, SumsPairwise
  <2> QED BY <1>3, <2>1, Zenon DEF Pairwise
<1>7. row["s2xx"] + row["s304"] + row["s3xx"] + row["s4xx"] + row["s5xx"] <= row["hits"]
  BY <1>3, <1>4, <1>5, <1>6 DEF RowFine
<1>8. row["blocked"] <= row["s4xx"]
  BY <1>3, <1>4, <1>5 DEF RowFine
<1>9. row["verified"] <= row["hits"]
  BY <1>3, <1>4 DEF RowFine
<1> QED BY <1>2, <1>3, <1>4, <1>7, <1>8, <1>9 DEF RowFine

\* The results after some hits: finite tables, of the keys those hits can have.
RowTables(K) == UNION {[d -> Row] : d \in {e \in SUBSET K : IsFiniteSet(e)}}
Stealths(J) == Tallies(J)
Results(K, J) == [rows : RowTables(K), stealth : Stealths(J), matched : Nat, hits : Nat, stealthHits : Nat,
                  hostsSkipped : Nat, sensitive : Nat, truncated : BOOLEAN]

LEMMA ResultFields ==
  ASSUME NEW K, NEW J, NEW r \in Results(K, J)
  PROVE  /\ r.rows \in RowTables(K) /\ r.stealth \in Stealths(J)
         /\ r.matched \in Nat /\ r.hits \in Nat /\ r.stealthHits \in Nat
         /\ r.hostsSkipped \in Nat /\ r.sensitive \in Nat /\ r.truncated \in BOOLEAN
BY DEF Results

LEMMA RowsPut ==
  ASSUME NEW K, NEW J, NEW r \in Results(K, J), NEW n \in RowTables(K), NEW u, u = [r EXCEPT !.rows = n]
  PROVE  /\ u \in Results(K, J)
         /\ u.rows = n /\ u.stealth = r.stealth /\ u.matched = r.matched /\ u.hits = r.hits
         /\ u.stealthHits = r.stealthHits /\ u.hostsSkipped = r.hostsSkipped /\ u.sensitive = r.sensitive /\ u.truncated = r.truncated
<1>1. u \in Results(K, J)
  BY DEF Results
<1>2. /\ u.rows = n /\ u.stealth = r.stealth /\ u.matched = r.matched /\ u.hits = r.hits
      /\ u.stealthHits = r.stealthHits /\ u.hostsSkipped = r.hostsSkipped /\ u.sensitive = r.sensitive /\ u.truncated = r.truncated
  BY DEF Results
<1> QED BY <1>1, <1>2

LEMMA StealthPut ==
  ASSUME NEW K, NEW J, NEW r \in Results(K, J), NEW n \in Stealths(J), NEW u, u = [r EXCEPT !.stealth = n]
  PROVE  /\ u \in Results(K, J)
         /\ u.stealth = n /\ u.rows = r.rows /\ u.matched = r.matched /\ u.hits = r.hits
         /\ u.stealthHits = r.stealthHits /\ u.hostsSkipped = r.hostsSkipped /\ u.sensitive = r.sensitive /\ u.truncated = r.truncated
<1>1. u \in Results(K, J)
  BY DEF Results
<1>2. /\ u.stealth = n /\ u.rows = r.rows /\ u.matched = r.matched /\ u.hits = r.hits
      /\ u.stealthHits = r.stealthHits /\ u.hostsSkipped = r.hostsSkipped /\ u.sensitive = r.sensitive /\ u.truncated = r.truncated
  BY DEF Results
<1> QED BY <1>1, <1>2

LEMMA MatchedPut ==
  ASSUME NEW K, NEW J, NEW r \in Results(K, J), NEW n \in Nat, NEW u, u = [r EXCEPT !.matched = n]
  PROVE  /\ u \in Results(K, J)
         /\ u.matched = n /\ u.rows = r.rows /\ u.stealth = r.stealth /\ u.hits = r.hits
         /\ u.stealthHits = r.stealthHits /\ u.hostsSkipped = r.hostsSkipped /\ u.sensitive = r.sensitive /\ u.truncated = r.truncated
<1>1. u \in Results(K, J)
  BY DEF Results
<1>2. /\ u.matched = n /\ u.rows = r.rows /\ u.stealth = r.stealth /\ u.hits = r.hits
      /\ u.stealthHits = r.stealthHits /\ u.hostsSkipped = r.hostsSkipped /\ u.sensitive = r.sensitive /\ u.truncated = r.truncated
  BY DEF Results
<1> QED BY <1>1, <1>2

LEMMA HitsPut ==
  ASSUME NEW K, NEW J, NEW r \in Results(K, J), NEW n \in Nat, NEW u, u = [r EXCEPT !.hits = n]
  PROVE  /\ u \in Results(K, J)
         /\ u.hits = n /\ u.rows = r.rows /\ u.stealth = r.stealth /\ u.matched = r.matched
         /\ u.stealthHits = r.stealthHits /\ u.hostsSkipped = r.hostsSkipped /\ u.sensitive = r.sensitive /\ u.truncated = r.truncated
<1>1. u \in Results(K, J)
  BY DEF Results
<1>2. /\ u.hits = n /\ u.rows = r.rows /\ u.stealth = r.stealth /\ u.matched = r.matched
      /\ u.stealthHits = r.stealthHits /\ u.hostsSkipped = r.hostsSkipped /\ u.sensitive = r.sensitive /\ u.truncated = r.truncated
  BY DEF Results
<1> QED BY <1>1, <1>2

LEMMA StealthHitsPut ==
  ASSUME NEW K, NEW J, NEW r \in Results(K, J), NEW n \in Nat, NEW u, u = [r EXCEPT !.stealthHits = n]
  PROVE  /\ u \in Results(K, J)
         /\ u.stealthHits = n /\ u.rows = r.rows /\ u.stealth = r.stealth /\ u.matched = r.matched
         /\ u.hits = r.hits /\ u.hostsSkipped = r.hostsSkipped /\ u.sensitive = r.sensitive /\ u.truncated = r.truncated
<1>1. u \in Results(K, J)
  BY DEF Results
<1>2. /\ u.stealthHits = n /\ u.rows = r.rows /\ u.stealth = r.stealth /\ u.matched = r.matched
      /\ u.hits = r.hits /\ u.hostsSkipped = r.hostsSkipped /\ u.sensitive = r.sensitive /\ u.truncated = r.truncated
  BY DEF Results
<1> QED BY <1>1, <1>2

LEMMA HostsSkippedPut ==
  ASSUME NEW K, NEW J, NEW r \in Results(K, J), NEW n \in Nat, NEW u, u = [r EXCEPT !.hostsSkipped = n]
  PROVE  /\ u \in Results(K, J)
         /\ u.hostsSkipped = n /\ u.rows = r.rows /\ u.stealth = r.stealth /\ u.matched = r.matched
         /\ u.hits = r.hits /\ u.stealthHits = r.stealthHits /\ u.sensitive = r.sensitive /\ u.truncated = r.truncated
<1>1. u \in Results(K, J)
  BY DEF Results
<1>2. /\ u.hostsSkipped = n /\ u.rows = r.rows /\ u.stealth = r.stealth /\ u.matched = r.matched
      /\ u.hits = r.hits /\ u.stealthHits = r.stealthHits /\ u.sensitive = r.sensitive /\ u.truncated = r.truncated
  BY DEF Results
<1> QED BY <1>1, <1>2

LEMMA SensitivePut ==
  ASSUME NEW K, NEW J, NEW r \in Results(K, J), NEW n \in Nat, NEW u, u = [r EXCEPT !.sensitive = n]
  PROVE  /\ u \in Results(K, J)
         /\ u.sensitive = n /\ u.rows = r.rows /\ u.stealth = r.stealth /\ u.matched = r.matched
         /\ u.hits = r.hits /\ u.stealthHits = r.stealthHits /\ u.hostsSkipped = r.hostsSkipped /\ u.truncated = r.truncated
<1>1. u \in Results(K, J)
  BY DEF Results
<1>2. /\ u.sensitive = n /\ u.rows = r.rows /\ u.stealth = r.stealth /\ u.matched = r.matched
      /\ u.hits = r.hits /\ u.stealthHits = r.stealthHits /\ u.hostsSkipped = r.hostsSkipped /\ u.truncated = r.truncated
  BY DEF Results
<1> QED BY <1>1, <1>2

LEMMA TruncatedPut ==
  ASSUME NEW K, NEW J, NEW r \in Results(K, J), NEW u, u = [r EXCEPT !.truncated = TRUE]
  PROVE  /\ u \in Results(K, J)
         /\ u.truncated /\ u.rows = r.rows /\ u.stealth = r.stealth /\ u.matched = r.matched
         /\ u.hits = r.hits /\ u.stealthHits = r.stealthHits /\ u.hostsSkipped = r.hostsSkipped /\ u.sensitive = r.sensitive
<1>1. u \in Results(K, J)
  BY DEF Results
<1>2. /\ u.truncated /\ u.rows = r.rows /\ u.stealth = r.stealth /\ u.matched = r.matched
      /\ u.hits = r.hits /\ u.stealthHits = r.stealthHits /\ u.hostsSkipped = r.hostsSkipped /\ u.sensitive = r.sensitive
  BY DEF Results
<1> QED BY <1>1, <1>2

\* A table with a row put in its place.
Column(rows, c) == [k \in DOMAIN rows |-> rows[k][c]]
TableFine(rows) == Cardinality(DOMAIN rows) <= MaxKeys /\ \A k \in DOMAIN rows : RowFine(rows[k])
WithRow(rows, key, row) == [k \in DOMAIN rows \cup {key} |-> IF k = key THEN row ELSE rows[k]]

LEMMA RowPut ==
  ASSUME NEW K, NEW rows \in RowTables(K), TableFine(rows), NEW key \in K, NEW row \in Row, RowFine(row), NEW w \in Nat,
         row["hits"] = (IF key \in DOMAIN rows THEN rows[key]["hits"] ELSE 0) + w,
         MaxKeys \in Nat, key \in DOMAIN rows \/ Cardinality(DOMAIN rows) < MaxKeys
  PROVE  /\ WithRow(rows, key, row) \in RowTables(K) /\ TableFine(WithRow(rows, key, row))
         /\ SumFunction(Column(WithRow(rows, key, row), "hits")) = SumFunction(Column(rows, "hits")) + w
<1> DEFINE new == WithRow(rows, key, row)
           d == DOMAIN rows
<1>1. d \in SUBSET K /\ IsFiniteSet(d) /\ rows \in [d -> Row]
  BY DEF RowTables
<1>2. d \cup {key} \in SUBSET K /\ IsFiniteSet(d \cup {key}) /\ new \in [d \cup {key} -> Row] /\ DOMAIN new = d \cup {key}
  BY <1>1, FS_AddElement DEF WithRow
<1>3. Cardinality(DOMAIN new) <= MaxKeys
  <2>1. CASE key \in d
    <3>1. d \cup {key} = d
      BY <2>1
    <3> QED BY <1>2, <3>1 DEF TableFine
  <2>2. CASE key \notin d
    <3>1. Cardinality(d \cup {key}) = Cardinality(d) + 1 /\ Cardinality(d) \in Nat /\ Cardinality(d) < MaxKeys
      BY <1>1, <2>2, FS_AddElement, FS_CardinalityType
    <3> QED BY <1>2, <3>1
  <2> QED BY <2>1, <2>2
<1>4. \A k \in DOMAIN new : RowFine(new[k])
  BY <1>2 DEF WithRow, TableFine
<1>5. new \in RowTables(K)
  BY <1>2 DEF RowTables
<1>6. Column(rows, "hits") \in Tallies(K)
  <2>1. \A k \in d : rows[k]["hits"] \in Int
    BY <1>1 DEF Row, Counts
  <2>2. Column(rows, "hits") \in [d -> Int]
    BY <2>1 DEF Column
  <2> QED BY <1>1, <2>2 DEF Tallies
<1>7. Tallied(Column(rows, "hits"), key, w, Column(new, "hits"))
  <2> DEFINE f == Column(rows, "hits")
             g == Column(new, "hits")
  <2>1. DOMAIN f = d /\ DOMAIN g = d \cup {key} /\ \A k \in d : f[k] = rows[k]["hits"]
    BY <1>2 DEF Column
  <2>2. \A k \in d \cup {key} : g[k] = IF k # key THEN f[k] ELSE IF key \in d THEN f[key] + w ELSE w
    <3>1. \A k \in d \cup {key} : g[k] = new[k]["hits"] /\ new[k] = IF k = key THEN row ELSE rows[k]
      BY <1>2 DEF Column, WithRow
    <3>2. row["hits"] = IF key \in d THEN f[key] + w ELSE w
      BY <2>1
    <3> QED BY <2>1, <3>1, <3>2
  <2>3. g = [k \in d \cup {key} |-> g[k]]
    BY <1>2 DEF Column
  <2> HIDE DEF f, g
  <2>4. g = [k \in DOMAIN f \cup {key} |-> IF k # key THEN f[k] ELSE IF key \in DOMAIN f THEN f[key] + w ELSE w]
    BY <2>1, <2>2, <2>3
  <2>5. Tallied(f, key, w, g)
    BY <2>4 DEF Tallied
  <2> QED BY <2>5 DEF f, g
<1>8. SumFunction(Column(new, "hits")) = SumFunction(Column(rows, "hits")) + w
  BY <1>6, <1>7, SumTally
<1> QED BY <1>3, <1>4, <1>5, <1>8 DEF TableFine

\* The counters of the results, with the weight of a hit that no part has yet.
Parts(a, b, c, owed, matched, truncated) ==
  (a + b + c) + owed <= matched /\ (truncated = FALSE => (a + b + c) + owed = matched)
PartsBalance(r, owed) == Parts(r.hits, r.hostsSkipped, r.sensitive, owed, r.matched, r.truncated)
RowsBalance(r) == r.hits = SumFunction(Column(r.rows, "hits"))
StealthBalance(r) == r.stealthHits = SumFunction(r.stealth)
FullIfTruncated(r) == r.truncated => Cardinality(DOMAIN r.rows) = MaxKeys
Consistent(r, owed) ==
  PartsBalance(r, owed) /\ RowsBalance(r) /\ StealthBalance(r) /\ TableFine(r.rows) /\ FullIfTruncated(r)

Shifted(a, b, c, w, m, t) ==
  /\ Parts(a + w, b, c, 0, m, t) /\ Parts(a, b + w, c, 0, m, t) /\ Parts(a, b, c + w, 0, m, t)
  /\ Parts(a, b, c, 0, m, TRUE)
LEMMA WeightShifted ==
  ASSUME NEW a \in Nat, NEW b \in Nat, NEW c \in Nat, NEW w \in Nat, NEW m \in Nat, NEW t, Parts(a, b, c, w, m, t)
  PROVE  Shifted(a, b, c, w, m, t)
BY DEF Shifted, Parts
LEMMA WeightOwed ==
  ASSUME NEW a \in Nat, NEW b \in Nat, NEW c \in Nat, NEW w \in Nat, NEW m \in Nat, NEW t, Parts(a, b, c, 0, m, t)
  PROVE  Parts(a, b, c, w, m + w, t)
BY DEF Parts

LEMMA ResultShifted ==
  ASSUME NEW K, NEW J, NEW r \in Results(K, J), NEW w \in Nat, PartsBalance(r, w)
  PROVE  Shifted(r.hits, r.hostsSkipped, r.sensitive, w, r.matched, r.truncated)
<1>1. r.hits \in Nat /\ r.hostsSkipped \in Nat /\ r.sensitive \in Nat /\ r.matched \in Nat
  BY ResultFields
<1> QED BY <1>1, WeightShifted DEF PartsBalance
LEMMA ResultOwed ==
  ASSUME NEW K, NEW J, NEW r \in Results(K, J), NEW w \in Nat, PartsBalance(r, 0)
  PROVE  Parts(r.hits, r.hostsSkipped, r.sensitive, w, r.matched + w, r.truncated)
<1>1. r.hits \in Nat /\ r.hostsSkipped \in Nat /\ r.sensitive \in Nat /\ r.matched \in Nat
  BY ResultFields
<1> QED BY <1>1, WeightOwed DEF PartsBalance

\* A hit of a crawler, on a page the funnel keeps.
LEMMA KeepCounted ==
  ASSUME NEW K, NEW J, NEW h, h.weight \in Nat, h.status \in Int, h.cdn \in BOOLEAN, NEW host,
         <<HitDay(h), h.agent, UrlKey(host, h.path)>> \in K, MaxKeys \in Nat,
         NEW r \in Results(K, J), Consistent(r, h.weight)
  PROVE  Keep(r, h, host) \in Results(K, J) /\ Consistent(Keep(r, h, host), 0) /\ Keep(r, h, host).matched = r.matched
<1> DEFINE key == <<HitDay(h), h.agent, UrlKey(host, h.path)>>
           old == IF key \in DOMAIN r.rows THEN r.rows[key] ELSE NoRow
           more == IF Verified(h) THEN {"verified"} ELSE {}
           row == [c \in Counts |-> old[c] + IF c \in Buckets(h.status) \cup {"hits"} \cup more THEN h.weight ELSE 0]
           new == WithRow(r.rows, key, row)
           full == key \notin DOMAIN r.rows /\ Cardinality(DOMAIN r.rows) >= MaxKeys
           counted == [r EXCEPT !.hits = r.hits + h.weight]
<1>1. Keep(r, h, host) = IF full THEN [r EXCEPT !.truncated = TRUE] ELSE [counted EXCEPT !.rows = new]
  BY DEF Keep, WithRow
<1>2. Shifted(r.hits, r.hostsSkipped, r.sensitive, h.weight, r.matched, r.truncated)
  <2>1. PartsBalance(r, h.weight)
    BY DEF Consistent
  <2> QED BY <2>1, ResultShifted
<1>3. key \in K /\ r.rows \in RowTables(K) /\ TableFine(r.rows) /\ IsFiniteSet(DOMAIN r.rows)
      /\ \A k \in DOMAIN r.rows : r.rows[k] \in Row
  <2>1. r.rows \in RowTables(K)
    BY ResultFields
  <2> QED BY <2>1 DEF Consistent, RowTables
<1> HIDE DEF key
<1>4. old \in Row /\ RowFine(old) /\ old["hits"] = IF key \in DOMAIN r.rows THEN r.rows[key]["hits"] ELSE 0
  BY <1>3, NoRowFine DEF TableFine
<1>5. more \in {{}, {"verified"}}
  BY DEF Verified
<1> HIDE DEF old, more
<1>6. row \in Row /\ RowFine(row) /\ row["hits"] = old["hits"] + h.weight
  BY <1>4, <1>5, RowGrows
<1> HIDE DEF row
<1>7. CASE full
  <2> DEFINE u == [r EXCEPT !.truncated = TRUE]
  <2>1. Cardinality(DOMAIN r.rows) = MaxKeys
    <3>1. Cardinality(DOMAIN r.rows) \in Nat
      BY <1>3, FS_CardinalityType
    <3> QED BY <1>3, <1>7, <3>1 DEF TableFine
  <2>6. u = [r EXCEPT !.truncated = TRUE]
    OBVIOUS
  <2> HIDE DEF u
  <2>2. u \in Results(K, J) /\ u.truncated /\ u.rows = r.rows /\ u.stealth = r.stealth /\ u.matched = r.matched
        /\ u.hits = r.hits /\ u.stealthHits = r.stealthHits /\ u.hostsSkipped = r.hostsSkipped /\ u.sensitive = r.sensitive
    BY <2>6, TruncatedPut
  <2>3. PartsBalance(u, 0)
    BY <1>2, <2>2 DEF PartsBalance, Shifted, Parts
  <2>4. RowsBalance(u) /\ StealthBalance(u) /\ TableFine(u.rows) /\ FullIfTruncated(u)
    BY <2>1, <2>2 DEF Consistent, RowsBalance, StealthBalance, FullIfTruncated
  <2>5. Keep(r, h, host) = u
    BY <1>1, <1>7 DEF u
  <2> QED BY <2>2, <2>3, <2>4, <2>5 DEF Consistent
<1>8. CASE ~ full
  <2> DEFINE n == r.hits + h.weight
             u == [counted EXCEPT !.rows = new]
  <2>1. n \in Nat /\ n = r.hits + h.weight
    BY ResultFields
  <2>2. key \in DOMAIN r.rows \/ Cardinality(DOMAIN r.rows) < MaxKeys
    <3>1. Cardinality(DOMAIN r.rows) \in Nat
      BY <1>3, FS_CardinalityType
    <3> QED BY <1>8, <3>1
  <2>3. new \in RowTables(K) /\ TableFine(new) /\ SumFunction(Column(new, "hits")) = SumFunction(Column(r.rows, "hits")) + h.weight
    BY <1>3, <1>4, <1>6, <2>2, RowPut
  <2>10. r.truncated => DOMAIN new = DOMAIN r.rows
    <3>1. r.truncated => key \in DOMAIN r.rows
      BY <2>2 DEF Consistent, FullIfTruncated
    <3> QED BY <3>1 DEF WithRow
  <2> HIDE DEF new
  <2>4. counted \in Results(K, J) /\ counted.hits = n /\ counted.rows = r.rows /\ counted.stealth = r.stealth /\ counted.matched = r.matched
        /\ counted.truncated = r.truncated /\ counted.stealthHits = r.stealthHits /\ counted.hostsSkipped = r.hostsSkipped
        /\ counted.sensitive = r.sensitive
    <3> HIDE DEF n
    <3>1. counted = [r EXCEPT !.hits = n]
      BY DEF n
    <3> QED BY <2>1, <3>1, HitsPut
  <2> HIDE DEF counted
  <2>5. u \in Results(K, J) /\ u.truncated = counted.truncated /\ u.rows = new /\ u.stealth = counted.stealth /\ u.matched = counted.matched
        /\ u.hits = counted.hits /\ u.stealthHits = counted.stealthHits /\ u.hostsSkipped = counted.hostsSkipped
        /\ u.sensitive = counted.sensitive
    BY <2>3, <2>4, RowsPut
  <2> HIDE DEF u, n
  <2>6. PartsBalance(u, 0)
    <3>1. u.matched = r.matched /\ u.hits = r.hits + h.weight /\ u.hostsSkipped = r.hostsSkipped /\ u.sensitive = r.sensitive
          /\ u.truncated = r.truncated
      BY <2>1, <2>4, <2>5
    <3> QED BY <1>2, <3>1, Zenon DEF PartsBalance, Shifted
  <2>7. RowsBalance(u)
    BY <2>1, <2>3, <2>4, <2>5 DEF Consistent, RowsBalance
  <2>8. StealthBalance(u) /\ TableFine(u.rows) /\ FullIfTruncated(u)
    BY <2>3, <2>4, <2>5, <2>10 DEF Consistent, StealthBalance, FullIfTruncated
  <2>9. Keep(r, h, host) = u
    BY <1>1, <1>8 DEF u
  <2> QED BY <2>4, <2>5, <2>6, <2>7, <2>8, <2>9 DEF Consistent
<1> QED BY <1>7, <1>8

\* The keys a hit can have in the two tables.
HostOf(h, domains) == IF h.host # "" THEN h.host ELSE IF domains = <<>> THEN "" ELSE Head(domains)
RowKeys(H, domains) == {<<HitDay(h), h.agent, UrlKey(HostOf(h, domains), h.path)>> : h \in H}
StealthKeys(H) == {<<HitDay(h), h.ip>> : h \in H}
\* What a hit weighs for the crawlers.
Weighs(h) == IF h.agent = NoBot THEN 0 ELSE h.weight

LEMMA HitCounted ==
  ASSUME NEW H, NEW h \in H, h.weight \in Nat, h.status \in Int, h.cdn \in BOOLEAN, NEW domains, MaxKeys \in Nat,
         NEW r \in Results(RowKeys(H, domains), StealthKeys(H)), Consistent(r, 0)
  PROVE  /\ AddHit(r, h, domains) \in Results(RowKeys(H, domains), StealthKeys(H))
         /\ Consistent(AddHit(r, h, domains), 0)
         /\ AddHit(r, h, domains).matched = r.matched + Weighs(h)
<1> DEFINE K == RowKeys(H, domains)
           J == StealthKeys(H)
           n == r.matched + h.weight
           m == [r EXCEPT !.matched = n]
           a == AddHit(r, h, domains)
<1>1. r \in Results(K, J) /\ <<HitDay(h), h.agent, UrlKey(HostOf(h, domains), h.path)>> \in K /\ <<HitDay(h), h.ip>> \in J
  BY DEF RowKeys, StealthKeys
<1> HIDE DEF K, J
<1>2. n \in Nat /\ n = r.matched + h.weight
  BY <1>1, ResultFields
<1> HIDE DEF n
<1>3. m \in Results(K, J) /\ m.matched = n /\ m.rows = r.rows /\ m.stealth = r.stealth /\ m.hits = r.hits /\ m.stealthHits = r.stealthHits
      /\ m.hostsSkipped = r.hostsSkipped /\ m.sensitive = r.sensitive /\ m.truncated = r.truncated
  BY <1>1, <1>2, MatchedPut
<1> HIDE DEF m
<1>4. Consistent(m, h.weight)
  <2>1. PartsBalance(m, h.weight)
    <3>1. PartsBalance(r, 0)
      BY DEF Consistent
    <3>2. Parts(r.hits, r.hostsSkipped, r.sensitive, h.weight, r.matched + h.weight, r.truncated)
      BY <1>1, <3>1, ResultOwed
    <3> QED BY <1>2, <1>3, <3>2, Zenon DEF PartsBalance
  <2>2. RowsBalance(m) /\ StealthBalance(m) /\ TableFine(m.rows) /\ FullIfTruncated(m)
    BY <1>3 DEF Consistent, RowsBalance, StealthBalance, FullIfTruncated
  <2> QED BY <2>1, <2>2 DEF Consistent
<1>5. Shifted(m.hits, m.hostsSkipped, m.sensitive, h.weight, m.matched, m.truncated)
  BY <1>3, <1>4, ResultShifted DEF Consistent
<1>6. CASE h.agent = NoBot /\ h.ip \notin Ranged
  <2>1. a = r
    BY <1>6 DEF AddHit, m
  <2>2. r.matched + 0 = r.matched
    BY <1>1, ResultFields
  <2> HIDE DEF a
  <2> QED BY <1>1, <1>6, <2>1, <2>2 DEF Weighs, K, J, a
<1>7. CASE h.agent = NoBot /\ h.ip \in Ranged
  <2> DEFINE table == Plus(r.stealth, <<HitDay(h), h.ip>>, h.weight)
             s == [r EXCEPT !.stealth = table]
             k == r.stealthHits + h.weight
             u == [s EXCEPT !.stealthHits = k]
  <2>1. a = u
    BY <1>7 DEF AddHit
  <2>2. table \in Stealths(J) /\ SumFunction(table) = SumFunction(r.stealth) + h.weight /\ k \in Nat /\ k = r.stealthHits + h.weight
    <3>1. r.stealth \in Tallies(J) /\ r.stealthHits \in Nat
      BY <1>1, ResultFields DEF Stealths
    <3>2. h.weight \in Int
      OBVIOUS
    <3>3. table \in Tallies(J) /\ SumFunction(table) = SumFunction(r.stealth) + h.weight
      BY <1>1, <3>1, <3>2, PlusAdds
    <3>4. k \in Nat
      BY <3>1
    <3> QED BY <3>3, <3>4 DEF Stealths
  <2> HIDE DEF table, k
  <2>3. s \in Results(K, J) /\ s.stealth = table /\ s.rows = r.rows /\ s.matched = r.matched /\ s.hits = r.hits /\ s.stealthHits = r.stealthHits
        /\ s.hostsSkipped = r.hostsSkipped /\ s.sensitive = r.sensitive /\ s.truncated = r.truncated
    BY <1>1, <2>2, StealthPut
  <2> HIDE DEF s
  <2>4. u \in Results(K, J) /\ u.stealthHits = k /\ u.rows = s.rows /\ u.stealth = s.stealth /\ u.matched = s.matched /\ u.hits = s.hits
        /\ u.hostsSkipped = s.hostsSkipped /\ u.sensitive = s.sensitive /\ u.truncated = s.truncated
    BY <2>2, <2>3, StealthHitsPut
  <2> HIDE DEF u, a
  <2>5. PartsBalance(u, 0) /\ RowsBalance(u) /\ TableFine(u.rows) /\ FullIfTruncated(u)
    BY <2>3, <2>4 DEF Consistent, PartsBalance, RowsBalance, FullIfTruncated
  <2>6. StealthBalance(u)
    BY <2>2, <2>3, <2>4 DEF Consistent, StealthBalance
  <2>7. u.matched = r.matched + 0
    BY <1>1, <2>3, <2>4, ResultFields
  <2> QED BY <1>7, <2>1, <2>4, <2>5, <2>6, <2>7 DEF Consistent, Weighs, K, J, a
<1>8. CASE h.agent # NoBot
  <2>1. Weighs(h) = h.weight
    BY <1>8 DEF Weighs
  <2>2. a \in {[m EXCEPT !.hostsSkipped = m.hostsSkipped + h.weight], [m EXCEPT !.sensitive = m.sensitive + h.weight],
               Keep(m, h, HostOf(h, domains))}
    BY <1>8 DEF AddHit, HostOf, m, n
  <2> HIDE DEF a
  <2>3. CASE a = [m EXCEPT !.hostsSkipped = m.hostsSkipped + h.weight]
    <3> DEFINE k == m.hostsSkipped + h.weight
    <3>1. k \in Nat /\ k = m.hostsSkipped + h.weight
      BY <1>3, ResultFields
    <3>2. a = [m EXCEPT !.hostsSkipped = k]
      BY <2>3
    <3> HIDE DEF k
    <3>3. a \in Results(K, J) /\ a.hostsSkipped = k /\ a.rows = m.rows /\ a.stealth = m.stealth /\ a.matched = m.matched /\ a.hits = m.hits
          /\ a.stealthHits = m.stealthHits /\ a.sensitive = m.sensitive /\ a.truncated = m.truncated
      BY <1>3, <3>1, <3>2, HostsSkippedPut
    <3>4. PartsBalance(a, 0)
      BY <1>5, <3>1, <3>3, Zenon DEF PartsBalance, Shifted
    <3>5. RowsBalance(a) /\ StealthBalance(a) /\ TableFine(a.rows) /\ FullIfTruncated(a)
      BY <1>4, <3>3 DEF Consistent, RowsBalance, StealthBalance, FullIfTruncated
    <3> QED BY <1>2, <1>3, <2>1, <3>3, <3>4, <3>5 DEF Consistent, K, J, a
  <2>4. CASE a = [m EXCEPT !.sensitive = m.sensitive + h.weight]
    <3> DEFINE k == m.sensitive + h.weight
    <3>1. k \in Nat /\ k = m.sensitive + h.weight
      BY <1>3, ResultFields
    <3>2. a = [m EXCEPT !.sensitive = k]
      BY <2>4
    <3> HIDE DEF k
    <3>3. a \in Results(K, J) /\ a.sensitive = k /\ a.rows = m.rows /\ a.stealth = m.stealth /\ a.matched = m.matched /\ a.hits = m.hits
          /\ a.stealthHits = m.stealthHits /\ a.hostsSkipped = m.hostsSkipped /\ a.truncated = m.truncated
      BY <1>3, <3>1, <3>2, SensitivePut
    <3>4. PartsBalance(a, 0)
      BY <1>5, <3>1, <3>3, Zenon DEF PartsBalance, Shifted
    <3>5. RowsBalance(a) /\ StealthBalance(a) /\ TableFine(a.rows) /\ FullIfTruncated(a)
      BY <1>4, <3>3 DEF Consistent, RowsBalance, StealthBalance, FullIfTruncated
    <3> QED BY <1>2, <1>3, <2>1, <3>3, <3>4, <3>5 DEF Consistent, K, J, a
  <2>5. CASE a = Keep(m, h, HostOf(h, domains))
    <3>1. a \in Results(K, J) /\ Consistent(a, 0) /\ a.matched = m.matched
      BY <1>1, <1>3, <1>4, <2>5, KeepCounted
    <3> QED BY <1>2, <1>3, <2>1, <3>1 DEF K, J, a
  <2> QED BY <2>2, <2>3, <2>4, <2>5
<1> QED BY <1>6, <1>7, <1>8

LEMMA NothingResults ==
  ASSUME NEW K, NEW J, MaxKeys \in Nat
  PROVE  NoResult \in Results(K, J) /\ Consistent(NoResult, 0) /\ NoResult.matched = 0
<1>1. Nothing \in Stealths(J) /\ SumFunction(Nothing) = 0
  BY SumNothing DEF Nothing, Stealths
<1>2. Nothing \in RowTables(K) /\ DOMAIN Nothing = {} /\ TableFine(Nothing)
  <2>1. {} \in SUBSET K /\ IsFiniteSet({}) /\ Nothing \in [{} -> Row] /\ DOMAIN Nothing = {}
    BY FS_EmptySet DEF Nothing
  <2>2. Cardinality({}) = 0
    BY FS_EmptySet
  <2> QED BY <2>1, <2>2 DEF RowTables, TableFine
<1>3. SumFunction(Column(Nothing, "hits")) = 0
  <2>1. Column(Nothing, "hits") = Nothing
    BY <1>2 DEF Column, Nothing
  <2> QED BY <1>1, <2>1
<1> HIDE DEF Nothing
<1>4. NoResult \in Results(K, J)
  BY <1>1, <1>2 DEF NoResult, Results
<1>5. NoResult.rows = Nothing /\ NoResult.stealth = Nothing /\ NoResult.matched = 0 /\ NoResult.hits = 0 /\ NoResult.stealthHits = 0
      /\ NoResult.hostsSkipped = 0 /\ NoResult.sensitive = 0 /\ NoResult.truncated = FALSE
  BY DEF NoResult
<1> QED BY <1>1, <1>2, <1>3, <1>4, <1>5 DEF Consistent, PartsBalance, Parts, RowsBalance, StealthBalance, FullIfTruncated

\* All the hits: the fold takes them in their order.
HitList(H) == \A h \in H : h.weight \in Nat /\ h.status \in Int /\ h.cdn \in BOOLEAN
Weights(entries) == [i \in DOMAIN entries |-> Weighs(entries[i])]

LEMMA HitsCounted ==
  ASSUME NEW H, HitList(H), NEW entries \in Seq(H), NEW domains, MaxKeys \in Nat
  PROVE  /\ Aggregate(entries, domains) \in Results(RowKeys(H, domains), StealthKeys(H))
         /\ Consistent(Aggregate(entries, domains), 0)
         /\ Aggregate(entries, domains).matched = SumFunctionOnSet(Weights(entries), DOMAIN entries)
<1> DEFINE D == DOMAIN entries
           W == Weights(entries)
           last(s) == Max(s)
           Solves(t) == t = [s \in SUBSET D |-> IF s = {} THEN NoResult ELSE AddHit(t[s \ {last(s)}], entries[last(s)], domains)]
           pick == [s \in (SUBSET D) \ {{}} |-> Max(s)]
           Out == Results(RowKeys(H, domains), StealthKeys(H))
           Good(s, v) == Consistent(v, 0) /\ v.matched = SumFunctionOnSet(W, s)
           V == [s \in SUBSET D |-> {v \in Out : Good(s, v)}]
           step == [s \in (SUBSET D) \ {{}} |-> [v \in Out |-> AddHit(v, entries[last(s)], domains)]]
<1>1. IsFiniteSet(D) /\ D \subseteq Int /\ \A i \in D : entries[i] \in H
  <2>1. D = 1..Len(entries) /\ Len(entries) \in Nat
    OBVIOUS
  <2>2. IsFiniteSet(1..Len(entries))
    BY <2>1, FS_Interval
  <2> QED BY <2>1, <2>2
<1>2. \A i \in D : W[i] = Weighs(entries[i]) /\ W[i] \in Int
  BY <1>1 DEF Weights, Weighs, HitList
<1>3. W \in [D -> Int]
  BY <1>2 DEF Weights
<1> HIDE DEF D, W
<1>4. Picks(D, pick)
  BY <1>1, MaxPicks
<1>5. \A s \in (SUBSET D) \ {{}} :
        pick[s] = last(s) /\ last(s) \in s /\ \A v \in Out : step[s][v] = AddHit(v, entries[last(s)], domains)
  BY <1>4 DEF Picks
<1>6. \A s \in (SUBSET D) \ {{}} : entries[last(s)] \in H
  BY <1>1, <1>5
<1>7. \A s \in SUBSET D : s \ {pick[s]} \in SUBSET D /\ \A v : v \in V[s] <=> (v \in Out /\ Good(s, v))
  OBVIOUS
<1>8. ASSUME NEW s \in (SUBSET D) \ {{}}, NEW v \in Out, Good(s \ {last(s)}, v)
      PROVE  AddHit(v, entries[last(s)], domains) \in Out /\ Good(s, AddHit(v, entries[last(s)], domains))
  <2> DEFINE i == last(s)
             q == s \ {i}
             a == AddHit(v, entries[i], domains)
  <2>1. i \in D /\ q \in SUBSET D /\ i \in D \ q /\ q \cup {i} = s
    BY <1>5
  <2>2. entries[i] \in H /\ entries[i].weight \in Nat /\ entries[i].status \in Int /\ entries[i].cdn \in BOOLEAN
    BY <1>6 DEF HitList
  <2>3. Consistent(v, 0) /\ v.matched = SumFunctionOnSet(W, q)
    BY <1>8
  <2> HIDE DEF i, q
  <2>4. a \in Out /\ Consistent(a, 0) /\ a.matched = v.matched + Weighs(entries[i])
    BY <1>8, <2>2, <2>3, HitCounted
  <2>5. SumFunctionOnSet(W, q \cup {i}) = SumFunctionOnSet(W, q) + W[i]
    <3>1. AddsUp(D, W)
      BY <1>1, <1>3, SumsAddUp
    <3> QED BY <2>1, <3>1 DEF AddsUp
  <2> HIDE DEF a
  <2>6. a.matched = SumFunctionOnSet(W, s)
    BY <1>2, <2>1, <2>3, <2>4, <2>5
  <2> QED BY <2>4, <2>6 DEF a, i
<1>9. NoResult \in Out /\ Good({}, NoResult)
  BY NothingResults, SumEmpty
<1> HIDE DEF Out, Good, V, pick, step, last
<1>10. Stays(D, pick, NoResult, step, V)
  <2>1. ASSUME NEW s \in (SUBSET D) \ {{}}, NEW v \in V[s \ {pick[s]}] PROVE step[s][v] \in V[s]
    <3>1. v \in Out /\ Good(s \ {last(s)}, v) /\ step[s][v] = AddHit(v, entries[last(s)], domains)
      BY <1>5, <1>7
    <3> QED BY <1>7, <1>8, <3>1
  <2>2. NoResult \in V[{}]
    BY <1>7, <1>9
  <2> QED BY <2>1, <2>2 DEF Stays
<1>11. ASSUME NEW t PROVE /\ IsFold(D, pick, NoResult, step, t) => FoldsIn(D, pick, NoResult, step, V, t)
                          /\ Solves(t) => FoldsIn(D, pick, NoResult, step, V, t)
  <2>1. ASSUME Solves(t), NEW s \in (SUBSET D) \ {{}}, t[s \ {pick[s]}] \in V[s \ {pick[s]}]
        PROVE  t[s] = step[s][t[s \ {pick[s]}]]
    <3>1. t[s] = AddHit(t[s \ {last(s)}], entries[last(s)], domains)
      BY <2>1
    <3> HIDE DEF Solves
    <3> QED BY <1>5, <1>7, <2>1, <3>1
  <2>2. Solves(t) => t[{}] = NoResult
    OBVIOUS
  <2>3. Solves(t) => FoldsIn(D, pick, NoResult, step, V, t)
    <3> HIDE DEF Solves
    <3> QED BY <2>1, <2>2 DEF FoldsIn
  <2>4. IsFold(D, pick, NoResult, step, t) => FoldsIn(D, pick, NoResult, step, V, t)
    BY DEF IsFold, FoldsIn
  <2> QED BY <2>3, <2>4
<1>12. \E t : Solves(t)
  <2>1. PICK t : IsFold(D, pick, NoResult, step, t)
    BY <1>1, <1>4, FoldExists
  <2>2. \A s \in SUBSET D : t[s] \in V[s]
    BY <1>1, <1>4, <1>10, <1>11, <2>1, FoldStays
  <2>3. \A s \in (SUBSET D) \ {{}} : step[s][t[s \ {pick[s]}]] = AddHit(t[s \ {last(s)}], entries[last(s)], domains)
    BY <1>5, <1>7, <2>2
  <2>4. Solves(t)
    BY <2>1, <2>3 DEF IsFold
  <2> QED BY <2>4
<1> DEFINE u == CHOOSE t : Solves(t)
<1>13. Solves(u)
  <2> HIDE DEF Solves
  <2> QED BY <1>12
<1>14. Aggregate(entries, domains) = u[D]
  BY DEF Aggregate, FoldLeft, MapThenFoldSet, last, D
<1> HIDE DEF u, Solves
<1>15. u[D] \in V[D]
  BY <1>1, <1>4, <1>10, <1>11, <1>13, FoldStays
<1>16. u[D] \in Out /\ Good(D, u[D])
  BY <1>7, <1>15
<1> QED BY <1>14, <1>16 DEF Out, Good, W, D

\* For every list of hits, the weight of the crawlers' hits is that of the rows and
\* of the counted refusals, unless the rows are at their cap and keys_truncated says
\* so (the hits dropped then are in no counter); the rows are no more than the cap,
\* and no column of a row exceeds its whole (aggregate in ingest.py, for every list of domains).
THEOREM RowsAlwaysAccounted ==
  ASSUME NEW H, HitList(H), NEW entries \in Seq(H), NEW domains, MaxKeys \in Nat
  PROVE  RowsAccounted(Aggregate(entries, domains), entries)
<1> DEFINE r == Aggregate(entries, domains)
           K == RowKeys(H, domains)
           J == StealthKeys(H)
           D == DOMAIN entries
           W == Weights(entries)
           P == {i \in D : entries[i].agent # NoBot}
           all(c) == Total(DOMAIN r.rows, LAMBDA k : r.rows[k][c])
<1>1. r \in Results(K, J) /\ Consistent(r, 0) /\ r.matched = SumFunctionOnSet(W, D)
  BY HitsCounted
<1> HIDE DEF r, K, J
<1>2. r.rows \in RowTables(K) /\ r.stealth \in Tallies(J) /\ r.hits \in Nat /\ r.hostsSkipped \in Nat /\ r.sensitive \in Nat /\ r.matched \in Nat
  BY <1>1, ResultFields DEF Stealths
<1>3. /\ r.hits + r.hostsSkipped + r.sensitive <= r.matched
      /\ ~ r.truncated => r.hits + r.hostsSkipped + r.sensitive = r.matched
  BY <1>1, <1>2 DEF Consistent, PartsBalance, Parts
<1>4. r.hits = all("hits")
  BY <1>1 DEF Consistent, RowsBalance, Column, Total
<1>5. r.stealthHits = Total(DOMAIN r.stealth, LAMBDA k : r.stealth[k])
  <2>1. Total(DOMAIN r.stealth, LAMBDA k : r.stealth[k]) = SumFunction([k \in DOMAIN r.stealth |-> r.stealth[k]])
    BY DEF Total
  <2>2. [k \in DOMAIN r.stealth |-> r.stealth[k]] = r.stealth
    BY <1>2 DEF Tallies
  <2> QED BY <1>1, <2>1, <2>2 DEF Consistent, StealthBalance
<1>6. Total(P, LAMBDA i : entries[i].weight) = r.matched
  <2>1. IsFiniteSet(D) /\ P \in SUBSET D /\ IsFiniteSet(P) /\ IsFiniteSet(D \ P)
    <3>1. D = 1..Len(entries) /\ Len(entries) \in Nat
      OBVIOUS
    <3>2. IsFiniteSet(D)
      BY <3>1, FS_Interval
    <3> QED BY <3>2, FS_Subset
  <2>2. \A i \in D : entries[i] \in H /\ entries[i].weight \in Nat /\ W[i] = Weighs(entries[i]) /\ W[i] \in Int
    BY DEF Weights, Weighs, HitList
  <2>3. W \in [D -> Int]
    BY <2>2 DEF Weights
  <2>4. \A i \in P : W[i] = entries[i].weight /\ entries[i].weight \in Int
    BY <2>2 DEF Weighs
  <2>5. \A i \in D \ P : W[i] = 0
    BY <2>2 DEF Weighs
  <2> DEFINE g == [i \in P |-> entries[i].weight]
             z == [i \in D \ P |-> 0]
  <2>6. Total(P, LAMBDA i : entries[i].weight) = SumFunctionOnSet(g, P)
    <3>1. Total(P, LAMBDA i : entries[i].weight) = SumFunction(g)
      BY DEF Total
    <3>2. DOMAIN g = P
      OBVIOUS
    <3> HIDE DEF g
    <3> QED BY <3>1, <3>2 DEF SumFunction
  <2>7. g \in [P -> Int] /\ (\A i \in P : W[i] = g[i]) /\ P \in SUBSET P /\ z \in [D \ P -> Int] /\ \A i \in D \ P : z[i] = 0
    BY <2>4
  <2> HIDE DEF g, z, W, P, D
  <2>8. SumFunctionOnSet(W, P) = SumFunctionOnSet(g, P)
    <3>1. IsFiniteSet(P) /\ P \subseteq P /\ P \in SUBSET D /\ g \in [P -> Int] /\ \A i \in P : W[i] = g[i]
      BY <2>1, <2>7
    <3> QED BY <2>1, <2>3, <3>1, SumAgrees
  <2>9. SumFunctionOnSet(W, D \ P) = 0
    <3> DEFINE Q == D \ P
    <3>1. Q \in SUBSET D /\ Q \subseteq Q /\ IsFiniteSet(Q) /\ z \in [Q -> Int] /\ (\A i \in Q : W[i] = z[i]) /\ \A i \in Q : z[i] \in 0..0
      BY <2>1, <2>5, <2>7
    <3> HIDE DEF Q
    <3>2. SumFunctionOnSet(W, Q) = SumFunctionOnSet(z, Q)
      BY <2>1, <2>3, <3>1, SumAgrees
    <3>3. SumFunctionOnSet(z, Q) \in 0..(Cardinality(Q) * 0)
      BY <3>1, SumBounded
    <3>4. Cardinality(Q) \in Nat
      BY <3>1, FS_CardinalityType
    <3>5. SumFunctionOnSet(z, Q) = 0
      BY <3>3, <3>4
    <3> QED BY <3>2, <3>5 DEF Q
  <2>10. SumFunctionOnSet(W, D) = SumFunctionOnSet(W, P) + SumFunctionOnSet(W, D \ P)
    BY <2>1, <2>3, SumParts
  <2>11. SumFunctionOnSet(W, P) \in Int
    BY <2>1, <2>3, SumTyped
  <2> QED BY <1>1, <2>6, <2>8, <2>9, <2>10, <2>11
<1>7. TableFine(r.rows) /\ (r.truncated => Cardinality(DOMAIN r.rows) = MaxKeys)
  BY <1>1 DEF Consistent, FullIfTruncated
<1>8. RowsAccounted(r, entries)
  BY <1>3, <1>4, <1>5, <1>6, <1>7, Zenon DEF RowsAccounted, TableFine, RowFine
<1> QED BY <1>8 DEF r

-----------------------------------------------------------------------------
(* The funnel's three views of the rows.                                   *)

HitsOf(rows) == Column(rows, "hits")

LEMMA HitsColumn ==
  ASSUME NEW K, NEW rows \in RowTables(K)
  PROVE  IsFiniteSet(DOMAIN rows) /\ HitsOf(rows) \in [DOMAIN rows -> Int] /\ \A k \in DOMAIN rows : HitsOf(rows)[k] = rows[k]["hits"]
<1>1. IsFiniteSet(DOMAIN rows) /\ \A k \in DOMAIN rows : rows[k]["hits"] \in Int
  BY DEF RowTables, Row, Counts
<1> QED BY <1>1 DEF HitsOf, Column

\* The total of some rows is a sum of the column.
LEMMA TotalIs ==
  ASSUME NEW K, NEW rows \in RowTables(K), NEW s \in SUBSET DOMAIN rows
  PROVE  Total(s, LAMBDA k : rows[k]["hits"]) = SumFunctionOnSet(HitsOf(rows), s)
<1> DEFINE f == HitsOf(rows)
           S == DOMAIN rows
           g == [k \in s |-> rows[k]["hits"]]
<1>1. Total(s, LAMBDA k : rows[k]["hits"]) = SumFunction(g)
  BY DEF Total
<1>2. DOMAIN g = s /\ g \in [s -> Int] /\ \A k \in s : f[k] = g[k]
  BY HitsColumn
<1>3. IsFiniteSet(S) /\ f \in [S -> Int] /\ s \in SUBSET S /\ IsFiniteSet(s) /\ s \subseteq s
  BY HitsColumn, FS_Subset
<1> HIDE DEF f, g, S
<1>4. SumFunctionOnSet(f, s) = SumFunctionOnSet(g, s)
  BY <1>2, <1>3, SumAgrees
<1> QED BY <1>1, <1>2, <1>4 DEF SumFunction, f

\* The rows' keys, by one of their parts.
Part(s, i) == {k[i] : k \in s}
With(s, i, x) == {k \in s : k[i] = x}

LEMMA PartsTotal ==
  ASSUME NEW S, IsFiniteSet(S), NEW f \in [S -> Int], NEW s \in SUBSET S, NEW i
  PROVE  SumFunction([x \in Part(s, i) |-> SumFunctionOnSet(f, With(s, i, x))]) = SumFunctionOnSet(f, s)
<1> DEFINE G == Part(s, i)
           key == [k \in s |-> k[i]]
           g == [k \in s |-> f[k]]
           h == [x \in G |-> SumFunctionOnSet(f, With(s, i, x))]
           j == [x \in G |-> SumFunctionOnSet(g, Group(s, key, x))]
<1>1. IsFiniteSet(s)
  BY FS_Subset
<1>2. IsFiniteSet(G)
  <2>1. key \in Surjection(s, G)
    BY DEF Part, Surjection
  <2> HIDE DEF key, G
  <2> QED BY <1>1, <2>1, FS_Surjection
<1>3. key \in [s -> G] /\ g \in [s -> Int] /\ \A k \in s : f[k] = g[k]
  BY DEF Part
<1>4. \A x \in G : Group(s, key, x) = With(s, i, x) /\ With(s, i, x) \in SUBSET s
  BY DEF Group, With
<1> HIDE DEF g, key, G
<1>5. \A x \in G : SumFunctionOnSet(f, With(s, i, x)) = SumFunctionOnSet(g, Group(s, key, x))
  <2> TAKE x \in G
  <2> DEFINE w == With(s, i, x)
  <2>1. w \in SUBSET S /\ w \subseteq s /\ Group(s, key, x) = w /\ \A k \in w : f[k] = g[k]
    BY <1>3, <1>4
  <2> HIDE DEF w
  <2>2. SumFunctionOnSet(f, w) = SumFunctionOnSet(g, w)
    BY <1>1, <1>3, <2>1, SumAgrees
  <2> QED BY <2>1, <2>2 DEF w
<1>6. h = j
  BY <1>5
<1>7. SumFunctionOnSet(j, G) = SumFunctionOnSet(g, s)
  BY <1>1, <1>2, <1>3, SumGroups
<1>8. SumFunctionOnSet(f, s) = SumFunctionOnSet(g, s)
  BY <1>1, <1>3, SumAgrees
<1>9. DOMAIN h = G
  OBVIOUS
<1> HIDE DEF h, j
<1>10. SumFunction(h) = SumFunctionOnSet(f, s)
  BY <1>6, <1>7, <1>8, <1>9 DEF SumFunction
<1> QED BY <1>10 DEF h, G

\* One page's fetches, over its crawlers, are those of its rows.
LEMMA PageTotal ==
  ASSUME NEW K, NEW rows \in RowTables(K), NEW p
  PROVE  Total(BotsOf(rows, p), LAMBDA b : Fetches(rows, p, b).hits) = SumFunctionOnSet(HitsOf(rows), With(DOMAIN rows, 3, p))
<1> DEFINE f == HitsOf(rows)
           S == DOMAIN rows
           s == With(S, 3, p)
           B == BotsOf(rows, p)
           sums == [b \in B |-> SumFunctionOnSet(f, With(s, 2, b))]
<1>1. s \in SUBSET S /\ IsFiniteSet(S) /\ f \in [S -> Int]
  BY HitsColumn DEF With
<1>2. B = Part(s, 2)
  BY DEF BotsOf, Part, With
<1>3. \A b : Fetches(rows, p, b).hits = SumFunctionOnSet(f, With(s, 2, b))
  <2> TAKE b
  <2> DEFINE of == {k \in DOMAIN rows : k[2] = b /\ k[3] = p}
  <2>1. Fetches(rows, p, b).hits = Total(of, LAMBDA k : rows[k]["hits"])
    BY DEF Fetches
  <2>2. of \in SUBSET DOMAIN rows /\ of = With(s, 2, b)
    BY DEF With
  <2> HIDE DEF of
  <2>3. Total(of, LAMBDA k : rows[k]["hits"]) = SumFunctionOnSet(HitsOf(rows), of)
    BY <2>2, TotalIs
  <2> QED BY <2>1, <2>2, <2>3
<1>4. Total(B, LAMBDA b : Fetches(rows, p, b).hits) = SumFunction([b \in B |-> Fetches(rows, p, b).hits])
  BY DEF Total
<1> HIDE DEF B, s, f, S
<1>5. [b \in B |-> Fetches(rows, p, b).hits] = sums
  BY <1>3
<1>6. SumFunction(sums) = SumFunctionOnSet(f, s)
  BY <1>1, <1>2, PartsTotal
<1> QED BY <1>4, <1>5, <1>6 DEF B, s, f, S

\* For all the rows of a window, its pages, its crawlers and its days add up to one
\* number of fetches; and a card names an engine with enough answers and a page
\* with enough good fetches that no answer cites, in any case (funnel.py).
THEOREM FunnelAlwaysTrue ==
  ASSUME NEW K, NEW rows \in RowTables(K), NEW answers, NEW fold, NEW assets, MinSamples \in Nat \ {0}
  PROVE  FunnelTrue(rows, answers, fold, assets)
<1> DEFINE S == DOMAIN rows
           f == HitsOf(rows)
           sum == Total(S, LAMBDA k : rows[k]["hits"])
           cards == Cards(rows, answers, fold, assets)
<1>1. S \in SUBSET S /\ IsFiniteSet(S) /\ f \in [S -> Int]
  BY HitsColumn
<1>2. sum = SumFunctionOnSet(f, S)
  BY TotalIs
<1>3. Total(Pages(rows), LAMBDA p : Page(rows, answers, fold, p).total) = sum
  <2>1. Total(Pages(rows), LAMBDA p : Page(rows, answers, fold, p).total)
        = SumFunction([p \in Pages(rows) |-> Page(rows, answers, fold, p).total])
    BY DEF Total
  <2>2. \A p : Page(rows, answers, fold, p).total = SumFunctionOnSet(f, With(S, 3, p))
    <3> TAKE p
    <3>1. Page(rows, answers, fold, p).total = Total(BotsOf(rows, p), LAMBDA b : Fetches(rows, p, b).hits)
      BY DEF Page
    <3> QED BY <3>1, PageTotal
  <2>3. Pages(rows) = Part(S, 3)
    BY DEF Pages, Part
  <2> HIDE DEF f, S, sum
  <2>4. [p \in Pages(rows) |-> Page(rows, answers, fold, p).total] = [p \in Part(S, 3) |-> SumFunctionOnSet(f, With(S, 3, p))]
    BY <2>2, <2>3
  <2>5. SumFunction([p \in Part(S, 3) |-> SumFunctionOnSet(f, With(S, 3, p))]) = SumFunctionOnSet(f, S)
    BY <1>1, PartsTotal
  <2> QED BY <1>2, <2>1, <2>4, <2>5
<1>4. Total({k[2] : k \in S}, LAMBDA b : BotTotal(rows, b)) = sum
  <2>1. Total({k[2] : k \in S}, LAMBDA b : BotTotal(rows, b)) = SumFunction([b \in {k[2] : k \in S} |-> BotTotal(rows, b)])
    BY DEF Total
  <2>2. \A b : BotTotal(rows, b) = SumFunctionOnSet(f, With(S, 2, b))
    <3> TAKE b
    <3> DEFINE of == {k \in DOMAIN rows : k[2] = b}
    <3>1. BotTotal(rows, b) = Total(of, LAMBDA k : rows[k]["hits"])
      BY DEF BotTotal
    <3>2. of \in SUBSET DOMAIN rows /\ of = With(S, 2, b)
      BY DEF With
    <3> HIDE DEF of
    <3>3. Total(of, LAMBDA k : rows[k]["hits"]) = SumFunctionOnSet(HitsOf(rows), of)
      BY <3>2, TotalIs
    <3> QED BY <3>1, <3>2, <3>3
  <2>3. {k[2] : k \in S} = Part(S, 2)
    BY DEF Part
  <2> HIDE DEF f, S, sum
  <2>4. [b \in {k[2] : k \in S} |-> BotTotal(rows, b)] = [b \in Part(S, 2) |-> SumFunctionOnSet(f, With(S, 2, b))]
    BY <2>2, <2>3
  <2>5. SumFunction([b \in Part(S, 2) |-> SumFunctionOnSet(f, With(S, 2, b))]) = SumFunctionOnSet(f, S)
    BY <1>1, PartsTotal
  <2> QED BY <1>2, <2>1, <2>4, <2>5
<1>5. Total({k[1] : k \in S}, LAMBDA d : DayTotal(rows, d)) = sum
  <2>1. Total({k[1] : k \in S}, LAMBDA d : DayTotal(rows, d)) = SumFunction([d \in {k[1] : k \in S} |-> DayTotal(rows, d)])
    BY DEF Total
  <2>2. \A d : DayTotal(rows, d) = SumFunctionOnSet(f, With(S, 1, d))
    <3> TAKE d
    <3> DEFINE of == {k \in DOMAIN rows : k[1] = d}
    <3>1. DayTotal(rows, d) = Total(of, LAMBDA k : rows[k]["hits"])
      BY DEF DayTotal
    <3>2. of \in SUBSET DOMAIN rows /\ of = With(S, 1, d)
      BY DEF With
    <3> HIDE DEF of
    <3>3. Total(of, LAMBDA k : rows[k]["hits"]) = SumFunctionOnSet(HitsOf(rows), of)
      BY <3>2, TotalIs
    <3> QED BY <3>1, <3>2, <3>3
  <2>3. {k[1] : k \in S} = Part(S, 1)
    BY DEF Part
  <2> HIDE DEF f, S, sum
  <2>4. [d \in {k[1] : k \in S} |-> DayTotal(rows, d)] = [d \in Part(S, 1) |-> SumFunctionOnSet(f, With(S, 1, d))]
    BY <2>2, <2>3
  <2>5. SumFunction([d \in Part(S, 1) |-> SumFunctionOnSet(f, With(S, 1, d))]) = SumFunctionOnSet(f, S)
    BY <1>1, PartsTotal
  <2> QED BY <1>2, <2>1, <2>4, <2>5
<1>6. ASSUME NEW c \in cards
      PROVE  /\ \A i \in DOMAIN answers : \A k \in answers[i].cites : ~ Same(fold, k, c[1])
             /\ Bots[c[2]].engine \in Engines(answers)
             /\ Fetches(rows, c[1], c[2]).ok >= MinFetches
  <2>1. /\ Page(rows, answers, fold, c[1]).match = "none"
        /\ Fetches(rows, c[1], c[2]).ok >= MinFetches
        /\ Cardinality(Of(answers, Bots[c[2]].engine)) >= MinSamples
    BY <1>6 DEF Cards
  <2>2. \A i \in DOMAIN answers : \A k \in answers[i].cites : ~ Same(fold, k, c[1])
    BY <2>1 DEF Page
  <2>3. Of(answers, Bots[c[2]].engine) # {}
    BY <2>1, FS_EmptySet
  <2>4. Bots[c[2]].engine \in Engines(answers)
    BY <2>3 DEF Of, Engines
  <2> QED BY <2>1, <2>2, <2>4
<1> HIDE DEF cards, sum
<1>7. FunnelTrue(rows, answers, fold, assets)
  BY <1>3, <1>4, <1>5, <1>6, Zenon DEF FunnelTrue, sum, cards, S
<1> QED BY <1>7

-----------------------------------------------------------------------------
(* One key per page. *)

\* The places of the segments that are not empty, if e is the empty segment.
Named(e, p) == {i \in 1..Len(p) : p[i] # e}
Spelt(e, p) == Entries(p, Named(e, p))

LEMMA NamedFinite ==
  ASSUME NEW S, NEW e, NEW p \in Seq(S)
  PROVE  Named(e, p) \in SUBSET Int /\ IsFiniteSet(Named(e, p))
<1>1. Named(e, p) \in SUBSET (1..Len(p)) /\ Named(e, p) \in SUBSET Int /\ Len(p) \in Nat
  BY LenProperties DEF Named
<1>2. IsFiniteSet(1..Len(p))
  BY <1>1, FS_Interval
<1> QED BY <1>1, <1>2, FS_Subset

\* An empty segment before or after a path changes nothing.
LEMMA EmptyEnds ==
  ASSUME NEW S, NEW e \in S, NEW p \in Seq(S)
  PROVE  Spelt(e, p \o <<e>>) = Spelt(e, p) /\ Spelt(e, <<e>> \o p) = Spelt(e, p)
<1> DEFINE after == p \o <<e>>
           before == <<e>> \o p
<1>1. Len(p) \in Nat /\ <<e>> \in Seq(S) /\ Len(<<e>>) = 1 /\ <<e>>[1] = e
  OBVIOUS
<1>2. /\ Len(after) = Len(p) + 1 /\ \A i \in 1..Len(p) : after[i] = p[i]
      /\ after[Len(p) + 1] = e
  BY <1>1, ConcatProperties
<1>3. /\ Len(before) = Len(p) + 1 /\ before[1] = e
      /\ \A i \in 1..Len(p) : before[i + 1] = p[i]
  BY <1>1, ConcatProperties
<1> HIDE DEF after, before
<1>4. Named(e, p) \in SUBSET Int /\ IsFiniteSet(Named(e, p))
  BY NamedFinite
<1>5. Spelt(e, after) = Spelt(e, p)
  <2>1. Named(e, after) = Named(e, p)
    BY <1>1, <1>2 DEF Named
  <2>2. \A i \in Named(e, p) : after[i] = p[i]
    BY <1>2 DEF Named
  <2>3. Entries(after, Named(e, p)) = Entries(p, Named(e, p))
    BY <1>4, <2>2, EntriesAgree
  <2> QED BY <2>1, <2>3 DEF Spelt
<1>6. Spelt(e, before) = Spelt(e, p)
  <2>1. Named(e, before) = {i + 1 : i \in Named(e, p)}
    <3>1. ASSUME NEW j \in Named(e, before) PROVE j \in {i + 1 : i \in Named(e, p)}
      <4>1. j \in 1..(Len(p) + 1) /\ before[j] # e /\ j # 1
        BY <1>1, <1>3, <3>1 DEF Named
      <4>2. j - 1 \in 1..Len(p) /\ j = (j - 1) + 1
        BY <1>1, <4>1
      <4>3. p[j - 1] = before[j]
        BY <1>3, <4>2
      <4> QED BY <4>1, <4>2, <4>3 DEF Named
    <3>2. ASSUME NEW i \in Named(e, p) PROVE i + 1 \in Named(e, before)
      BY <1>1, <1>3 DEF Named
    <3> QED BY <3>1, <3>2
  <2>2. \A i \in Named(e, p) : before[i + 1] = p[i]
    BY <1>3 DEF Named
  <2>3. Named(e, before) = MovedBy(Named(e, p), 1)
    BY <2>1 DEF MovedBy
  <2>4. Entries(before, Named(e, before)) = Entries(p, Named(e, p))
    BY <1>4, <2>2, <2>3, EntriesShifted
  <2> QED BY <2>4 DEF Spelt
<1> QED BY <1>5, <1>6 DEF after, before

\* A path and one segment more.
LEMMA FrontOf ==
  ASSUME NEW S, NEW p \in Seq(S), NEW f \in S
  PROVE  LET q == p \o <<f>> IN
         q \in Seq(S) /\ q # <<>> /\ Last(q) = f /\ Front(q) = p
<1> DEFINE q == p \o <<f>>
<1>1. q \in Seq(S) /\ Len(q) = Len(p) + 1 /\ q[Len(p) + 1] = f /\ \A i \in 1..Len(p) : q[i] = p[i]
  <2>1. <<f>> \in Seq(S) /\ Len(<<f>>) = 1 /\ <<f>>[1] = f /\ Len(p) \in Nat
    OBVIOUS
  <2> QED BY <2>1, ConcatProperties
<1> HIDE DEF q
<1>2. q # <<>> /\ Last(q) = f
  BY <1>1 DEF Last
<1>3. Front(q) = p
  <2>1. Front(q) = [i \in 1..Len(p) |-> q[i]]
    BY <1>1 DEF Front, SubSeq
  <2>2. p = [i \in 1..Len(p) |-> p[i]]
    OBVIOUS
  <2> QED BY <1>1, <2>1, <2>2
<1> QED BY <1>1, <1>2, <1>3 DEF q

\* An index file is dropped and nothing else.
LEMMA CanonicalOf ==
  ASSUME NEW S, IndexFiles \in SUBSET S, NEW e \in S, e = "", NEW p \in Seq(S)
  PROVE  /\ p = <<>> \/ Last(p) \notin IndexFiles => Canonical(p) = Spelt(e, p)
         /\ \A f \in IndexFiles : Canonical(p \o <<f>>) = Spelt(e, p)
<1>1. \A q : Those(q, LAMBDA s : s # "") = Entries(q, {i \in DOMAIN q : q[i] # e})
  BY Zenon DEF Those
<1>2. ASSUME NEW q \in Seq(S) PROVE Those(q, LAMBDA s : s # "") = Spelt(e, q)
  <2>1. DOMAIN q = 1..Len(q)
    BY LenProperties
  <2> QED BY <1>1, <2>1, Zenon DEF Spelt, Named
<1>3. p = <<>> \/ Last(p) \notin IndexFiles => Canonical(p) = Spelt(e, p)
  <2> SUFFICES ASSUME p = <<>> \/ Last(p) \notin IndexFiles PROVE Canonical(p) = Spelt(e, p)
    BY Zenon
  <2>1. Canonical(p) = Those(p, LAMBDA s : s # "")
    BY Zenon DEF Canonical
  <2> QED BY <1>2, <2>1, Zenon
<1>4. ASSUME NEW f \in IndexFiles PROVE Canonical(p \o <<f>>) = Spelt(e, p)
  <2> DEFINE q == p \o <<f>>
  <2>1. q # <<>> /\ Last(q) = f /\ Front(q) = p
    BY FrontOf
  <2> HIDE DEF q
  <2>2. Canonical(q) = Those(p, LAMBDA s : s # "")
    BY <2>1, Zenon DEF Canonical
  <2> QED BY <1>2, <2>2, Zenon DEF q
<1> QED BY <1>3, <1>4, Zenon

\* What a path becomes, when its last segment is no index file and when it is.
SpeltAs(S, e) ==
  \A p \in Seq(S) : /\ p = <<>> \/ Last(p) \notin IndexFiles => Canonical(p) = Spelt(e, p)
                    /\ \A f \in IndexFiles : Canonical(p \o <<f>>) = Spelt(e, p)

\* The spellings, of which the last segment decides.
OneKey(e, p, f) ==
  /\ Canonical(p \o <<e>>) = Canonical(p) /\ Canonical(p \o <<f>>) = Canonical(p)
  /\ Canonical(<<e>> \o p \o <<e, f>>) = Canonical(p)
LEMMA KeysMeetFor ==
  ASSUME NEW S, IndexFiles \in SUBSET S, NEW e \in S, e \notin IndexFiles, NEW page \in Seq(S), NEW f \in IndexFiles,
         SpeltAs(S, e),
         page = <<>> \/ Last(page) \notin IndexFiles
  PROVE  OneKey(e, page, f)
<1>1. Canonical(page) = Spelt(e, page) /\ Canonical(page \o <<f>>) = Spelt(e, page)
  BY DEF SpeltAs
<1>2. Canonical(page \o <<e>>) = Spelt(e, page)
  <2> DEFINE q == page \o <<e>>
  <2>1. q \in Seq(S) /\ Last(q) = e
    BY FrontOf
  <2>2. Spelt(e, q) = Spelt(e, page)
    BY EmptyEnds
  <2> HIDE DEF q
  <2>3. Canonical(q) = Spelt(e, q)
    BY <2>1 DEF SpeltAs
  <2> QED BY <2>2, <2>3 DEF q
<1>3. Canonical(<<e>> \o page \o <<e, f>>) = Spelt(e, page)
  <2> DEFINE b == <<e>> \o page
             q == b \o <<e>>
  <2>1. b \in Seq(S) /\ <<e>> \in Seq(S) /\ <<f>> \in Seq(S)
    OBVIOUS
  <2>2. q \in Seq(S)
    <3> HIDE DEF b
    <3> QED BY <2>1, ConcatProperties
  <2>7. <<e>> \o <<f>> = <<e, f>>
    <3>1. /\ <<e>> \in Seq(S) /\ Len(<<e>>) = 1 /\ <<e>>[1] = e /\ <<f>> \in Seq(S) /\ Len(<<f>>) = 1 /\ <<f>>[1] = f
          /\ <<e, f>> \in Seq(S) /\ Len(<<e, f>>) = 2 /\ <<e, f>>[1] = e /\ <<e, f>>[2] = f
      OBVIOUS
    <3> DEFINE l == <<e>> \o <<f>>
    <3>2. l \in Seq(S) /\ Len(l) = 2 /\ l[1] = e /\ l[2] = f
      BY <3>1, ConcatProperties
    <3> HIDE DEF l
    <3>3. \A i \in 1..2 : l[i] = <<e, f>>[i]
      <4> SUFFICES ASSUME NEW i \in 1..2 PROVE l[i] = <<e, f>>[i]
        OBVIOUS
      <4>1. i = 1 \/ i = 2
        OBVIOUS
      <4> QED BY <3>1, <3>2, <4>1
    <3>4. l = <<e, f>>
      BY <3>1, <3>2, <3>3, SeqEqual
    <3> QED BY <3>4 DEF l
  <2>3. q \o <<f>> = b \o <<e, f>>
    <3>1. q \o <<f>> = b \o (<<e>> \o <<f>>)
      BY <2>1, ConcatAssociative
    <3> QED BY <2>7, <3>1
  <2>4. Spelt(e, b) = Spelt(e, page)
    BY EmptyEnds
  <2> HIDE DEF b
  <2>5. Spelt(e, q) = Spelt(e, b)
    BY <2>1, EmptyEnds
  <2> HIDE DEF q
  <2>6. Canonical(q \o <<f>>) = Spelt(e, q)
    BY <2>2 DEF SpeltAs
  <2> QED BY <2>3, <2>4, <2>5, <2>6 DEF b
<1> QED BY <1>1, <1>2, <1>3 DEF OneKey

\* ingest.py, normalise.py: for every path, and whatever the names of index files
\* (an empty segment is none), the spellings of one page have one key.
THEOREM KeysMeet ==
  ASSUME NEW S, "" \in S, IndexFiles \in SUBSET S, "" \notin IndexFiles, NEW page \in Seq(S)
  PROVE  OneKeyPerPage(page)
<1>1. PICK e \in S : e = "" /\ e \notin IndexFiles
  BY Zenon
<1>2. SpeltAs(S, e)
  BY <1>1, CanonicalOf, Zenon DEF SpeltAs
<1>3. ASSUME page = <<>> \/ Last(page) \notin IndexFiles, NEW f \in IndexFiles
      PROVE  OneKey(e, page, f)
  BY <1>1, <1>2, <1>3, KeysMeetFor, Zenon
<1> QED BY <1>1, <1>3, Zenon DEF OneKeyPerPage, OneKey

=============================================================================
