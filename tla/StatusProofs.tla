----------------------------- MODULE StatusProofs ----------------------------
(****************************************************************************)
(* A theorem about what the desktop is shown, for every value of the        *)
(* constants: between two rounds, with no new version, the bus has the      *)
(* summary and the items of the rows there are.                              *)
(****************************************************************************)
EXTENDS StatusFeed, SyncServiceProofs

allVars == <<vars, statusVars>>

(* In the middle of a round only the summary can be current.  What has        *)
(* changed since was announced by a bump or missed, and both are remembered   *)
(* until a later round.                                                       *)
RoundKept ==
    /\ feed \in {"poll", "summary", "items"} /\ missed \in BOOLEAN
    /\ DOMAIN shown = {"summary", "items"}
    /\ shown = [summary |-> shown.summary, items |-> shown.items]
    /\ ~news /\ ~missed =>
          /\ feed \in {"poll", "items"} => shown.summary = Summary(db)
          /\ feed = "poll" => shown.items = Items(db)

FeedInv == Inv /\ RoundKept
-----------------------------------------------------------------------------
(* The projections are about the rows alone.                                  *)
LEMMA ProjectionsOfRows ==
    ASSUME NEW d, NEW e, e.files = d.files
    PROVE  Summary(e) = Summary(d) /\ Items(e) = Items(d)
BY DEF Summary, Count, Items

LEMMA QuietKeeps ==
    ASSUME RoundKept, Quiet, db'.files = db.files PROVE RoundKept'
<1>1. Summary(db') = Summary(db) /\ Items(db') = Items(db)
  BY ProjectionsOfRows
<1>2. QED
  BY <1>1 DEF RoundKept, Quiet, statusVars

LEMMA BumpKeeps == ASSUME RoundKept, Bump PROVE RoundKept'
BY DEF RoundKept, Bump

(* A call that fails at a statement has changed no row, unless it renames.    *)
LEMMA FailedCallQuiet ==
    ASSUME Inv, NEW t \in Thread, CallEnds(t), CallFailed(t), th[t].pc # "rename"
    PROVE  db'.files = db.files
<1> DEFINE f == th[t].entry.id
<1>1. db \in Database
  BY DEF Inv, TypeOK
<1>2. ASSUME ~HasRow(db, f) PROVE \A r \in db.files : r.id # f
  BY <1>2 DEF HasRow, RowOf
<1>3. CASE CreateCommit(t) \/ MkdirCommit(t)
  BY <1>3 DEF CreateCommit, MkdirCommit, CallFailed, Created
<1>4. CASE WriteCommit(t)
  <2> DEFINE F == {IF r.id = f THEN [r EXCEPT !.sync = "QueuedUpload", !.cached = TRUE]
                                ELSE r : r \in db.files}
  <2>0. ~HasRow(db, f) /\ F = db.files
    BY <1>2, <1>4 DEF WriteCommit, CallFailed
  <2>1. ~HasRow(db, f) /\ Written(t).files = db.files
    BY <1>1, <2>0 DEF Written, SetCached, Database
  <2>2. Upsert(Written(t), f, "Upload", th[t].entry.path, RootPath) = Written(t)
    BY <2>1 DEF Upsert, HasRow, RowOf
  <2>3. QED
    BY <1>4, <2>1, <2>2 DEF WriteCommit
<1>5. CASE UnlinkCommit(t)
  <2> DEFINE marked == SetSync(db, f, "QueuedDelete")
           F == {IF r.id = f THEN [r EXCEPT !.sync = "QueuedDelete"] ELSE r : r \in db.files}
  <2>0. ~HasRow(db, f) /\ F = db.files
    BY <1>2, <1>5 DEF UnlinkCommit, CallFailed
  <2>1. /\ ~HasRow(db, f) /\ marked.files = db.files
        /\ DropOpsOf(marked, f).files = db.files
    BY <1>1, <2>0 DEF SetSync, DropOpsOf, Database
  <2>2. UpsertAlone(marked, f, "Delete", th[t].entry.path, RootPath) = DropOpsOf(marked, f)
    BY <2>1 DEF UpsertAlone, Upsert, HasRow, RowOf
  <2>3. th[t].entry.ver # NoVersion
    BY <1>5 DEF UnlinkCommit, CallFailed
  <2>4. QED
    BY <1>5, <2>1, <2>2, <2>3 DEF UnlinkCommit
<1>6. CASE ReadCommit(t)
  BY <1>6 DEF ReadCommit, CallFailed
<1>7. CASE RenameCommit(t)
  BY <1>7 DEF RenameCommit
<1>8. QED
  BY <1>3, <1>4, <1>5, <1>6, <1>7 DEF CallEnds

(* A step of the worker that does not bump the version changes no row.        *)
LEMMA SilentWorker ==
    ASSUME Inv, WorkerStep, w.pc \notin Bumping \/ (w.pc = "u_conflict" /\ w'.pc = "idle")
    PROVE  db'.files = db.files
<1>1. db \in Database /\ w \in WorkerState
  BY DEF Inv, TypeOK
<1>2. CASE RecoverLease \/ Lease
  BY <1>1, <1>2 DEF RecoverLease, Lease, SetStatus, Database
<1>3. CASE UploadConflict
  <2>1. ASSUME Goto("u_finish") PROVE FALSE
    BY <1>1, <1>3, <2>1 DEF Goto, WorkerState, UploadConflict, At, Bumping
  <2>2. QED
    BY <1>3, <2>1 DEF UploadConflict
<1>4. CASE Poll \/ Start \/ UploadCheck \/ UploadPut \/ UploadFetch \/ DeleteCall \/ MkdirCall
           \/ MkdirFetch \/ RenameProbe \/ RenameDelete \/ RenameMove \/ RenameFetch
           \/ DownloadGet \/ DownloadWrite
  BY <1>4 DEF Poll, vars, Start, UploadCheck, UploadPut, UploadFetch, DeleteCall, MkdirCall,
              MkdirFetch, RenameProbe, RenameDelete, RenameMove, RenameFetch,
              DownloadGet, DownloadWrite
<1>5. ASSUME Fail \/ UploadMark \/ UploadFinish \/ UploadCommit \/ DeleteCommit \/ MkdirSynced
             \/ RenameSynced \/ DownloadMark \/ DownloadCommit
      PROVE  FALSE
  BY <1>5 DEF Fail, UploadMark, UploadFinish, UploadCommit, DeleteCommit, MkdirSynced,
              RenameSynced, DownloadMark, DownloadCommit, At, Bumping
<1>6. QED
  BY <1>2, <1>3, <1>4, <1>5 DEF WorkerStep
-----------------------------------------------------------------------------
LEMMA CallStatusKeeps ==
    ASSUME Inv, RoundKept, NEW t \in Thread, CallStatus(t) PROVE RoundKept'
<1>1. CASE CallEnds(t) /\ ~CallFailed(t)
  BY <1>1, BumpKeeps DEF CallEnds
<1>2. CASE CallEnds(t) /\ CallFailed(t) /\ th[t].pc = "rename"
  BY <1>2 DEF CallEnds, RoundKept
<1>3. CASE CallEnds(t) /\ CallFailed(t) /\ th[t].pc # "rename"
  <2>1. db'.files = db.files
    BY <1>3, FailedCallQuiet
  <2>2. Summary(db') = Summary(db) /\ Items(db') = Items(db)
    BY <2>1, ProjectionsOfRows
  <2>3. UNCHANGED <<news, feed, shown>> /\ missed' = (missed \/ FALSE)
    BY <1>3 DEF CallEnds
  <2>4. QED
    BY <2>2, <2>3 DEF RoundKept
<1>4. CASE ~CallEnds(t)
  BY <1>4, QuietKeeps DEF CallStatus, WriteCopy, ReadDownload, ReadDownloadFails, ReadStore
<1>5. QED
  BY <1>1, <1>2, <1>3, <1>4

LEMMA WorkerStatusKeeps ==
    ASSUME Inv, RoundKept, WorkerStatus PROVE RoundKept'
<1>1. CASE Bump
  BY <1>1, BumpKeeps
<1>2. CASE ~Bump
  <2>1. Quiet
    BY <1>2 DEF WorkerStatus
  <2>2. CASE WorkerStep /\ (w.pc \notin Bumping \/ (w.pc = "u_conflict" /\ w'.pc = "idle"))
    BY <2>1, <2>2, SilentWorker, QuietKeeps
  <2>3. CASE RefreshList \/ RefreshSnapshot \/ RefreshBegin \/ RefreshMerge \/ RefreshDrop
    BY <2>1, <2>3, QuietKeeps DEF RefreshList, RefreshSnapshot, RefreshBegin, RefreshMerge, RefreshDrop
  <2>4. QED
    BY <1>2, <2>2, <2>3 DEF WorkerStatus
<1>3. QED
  BY <1>1, <1>2

(* The task itself: what it announces is what the rows are.                   *)
LEMMA FeedStepKeeps ==
    ASSUME RoundKept, FeedStep PROVE RoundKept'
<1>1. Summary(db') = Summary(db) /\ Items(db') = Items(db)
  BY DEF FeedStep, vars
<1>2. CASE Notice
  BY <1>1, <1>2 DEF RoundKept, Notice
<1>3. CASE AnnounceSummary
  <2>1. shown' = [summary |-> Summary(db), items |-> shown.items]
    BY <1>3 DEF AnnounceSummary, RoundKept
  <2>2. QED
    BY <1>1, <1>3, <2>1 DEF RoundKept, AnnounceSummary
<1>4. CASE AnnounceItems
  <2>1. shown' = [summary |-> shown.summary, items |-> Items(db)]
    BY <1>4 DEF AnnounceItems, RoundKept
  <2>2. QED
    BY <1>1, <1>4, <2>1 DEF RoundKept, AnnounceItems
<1>5. QED
  BY <1>2, <1>3, <1>4 DEF FeedStep

LEMMA RestartedKeeps == ASSUME Restarted PROVE RoundKept'
BY DEF Restarted, RoundKept

(* Every step of the feed's specification is one of the sync layer's, or     *)
(* none at all.                                                               *)
LEMMA StatusImplements == ASSUME StatusNext PROVE [Next]_vars
<1>1. CASE \E t \in Thread : Call(t) \/ CallStatus(t)
  BY <1>1 DEF CallStatus, CallEnds, CallStep, Next
<1>2. CASE RequestRefresh \/ NetworkFails \/ OtherClient \/ Restarted
  BY <1>2 DEF Restarted, Next
<1>3. CASE WorkerStatus
  BY <1>3 DEF WorkerStatus, RefreshStep, Next
<1>4. CASE FeedStep
  BY <1>4 DEF FeedStep
<1>5. QED
  BY <1>1, <1>2, <1>3, <1>4 DEF StatusNext

LEMMA RoundSteps == ASSUME FeedInv, [StatusNext]_allVars PROVE RoundKept'
<1> USE DEF FeedInv
<1>1. CASE UNCHANGED allVars
  BY <1>1 DEF allVars, vars, statusVars, RoundKept
<1>2. ASSUME NEW t \in Thread, Call(t), Quiet PROVE RoundKept'
  <2>1. db' = db
    BY <1>2 DEF Call, CreateFile, MakeDir, WriteFile, Unlink, ReadFile, Rename
  <2>2. QED
    BY <1>2, <2>1, QuietKeeps
<1>3. ASSUME NEW t \in Thread, CallStatus(t) PROVE RoundKept'
  BY <1>3, CallStatusKeeps
<1>4. CASE RequestRefresh /\ Bump
  BY <1>4, BumpKeeps
<1>5. CASE (NetworkFails \/ OtherClient) /\ Quiet
  <2>1. db' = db
    BY <1>5 DEF NetworkFails, OtherClient, OtherPut, OtherDelete
  <2>2. QED
    BY <1>5, <2>1, QuietKeeps
<1>6. QED
  BY <1>1, <1>2, <1>3, <1>4, <1>5, WorkerStatusKeeps, FeedStepKeeps, RestartedKeeps DEF StatusNext

LEMMA FeedInvSteps == ASSUME FeedInv, [StatusNext]_allVars PROVE FeedInv'
<1>1. [Next]_vars
  BY StatusImplements DEF allVars
<1>2. Inv'
  BY <1>1, NextKeeps DEF FeedInv
<1>3. QED
  BY <1>2, RoundSteps DEF FeedInv

LEMMA FeedInvInit == ASSUME StatusInit PROVE FeedInv
BY InitInv DEF StatusInit, FeedInv, RoundKept

THEOREM FeedInvariance == StatusSpec => []FeedInv
<1>1. StatusInit => FeedInv
  BY FeedInvInit
<1>2. FeedInv /\ [StatusNext]_<<vars, statusVars>> => FeedInv'
  BY FeedInvSteps DEF allVars
<1>3. QED
  BY <1>1, <1>2, PTL DEF StatusSpec

(* No change of a row goes without a bump that makes another round, and no   *)
(* bump is lost to the round under way: what the bus shows between two       *)
(* rounds is what there is, but for a rename that fails halfway.             *)
THEOREM ShownIsCurrent == StatusSpec => []FeedCurrent
<1>1. FeedInv => FeedCurrent
  BY DEF FeedInv, RoundKept, FeedCurrent
<1>2. QED
  BY <1>1, FeedInvariance, PTL

=============================================================================
