------------------------------ MODULE StatusFeed -----------------------------
(****************************************************************************)
(* What the desktop sees of the sync layer: the projections sync_summary    *)
(* and sync_items of src/src/sync.rs, and the task of                       *)
(* src/src/dbus_service.rs that polls status_version and announces the two  *)
(* properties, one after the other, on the bus.                              *)
(****************************************************************************)
EXTENDS SyncProperties

VARIABLES news,   \* whether status_version differs from the task's last_seen
          feed,   \* what the task is about to announce
          shown,  \* what was announced last
          missed  \* history: a rename has moved rows since the last new
                  \* version and returned before it bumped the version

statusVars == <<news, feed, shown, missed>>
-----------------------------------------------------------------------------
Label(s) == CASE s = "Synced" -> "synced"
              [] s \in {"QueuedUpload", "QueuedDelete"} -> "queued"
              [] s = "Uploading" -> "uploading"
              [] s \in {"Downloading", "Placeholder"} -> "downloading"
              [] s = "Conflict" -> "conflict"
              [] s = "Error" -> "error"

(* The counts of sync_summary; the other fields are computed from them.      *)
Count(d, states) == Cardinality({r \in d.files : r.sync \in states})

Summary(d) == [uploading   |-> Count(d, {"Uploading"}),
               downloading |-> Count(d, {"Downloading"}),
               queued      |-> Count(d, {"QueuedUpload", "QueuedDelete"}),
               conflict    |-> Count(d, {"Conflict"}),
               error       |-> Count(d, {"Error"})]

(* The rows with something to report; one on its way out is not listed.  The *)
(* cut at MAX_SYNC_ITEMS is left out.                                        *)
Reported == {"QueuedUpload", "Uploading", "Downloading", "Conflict", "Error"}

Items(d) == {[path |-> r.path, state |-> Label(r.sync)] :
                r \in {q \in d.files : q.sync \in Reported}}

StatusInit ==
    /\ Init
    /\ news = FALSE /\ feed = "poll" /\ missed = FALSE
    /\ shown = [summary |-> Summary(db), items |-> Items(db)]
-----------------------------------------------------------------------------
(* A step after which status_version is another.                             *)
Bump == news' = TRUE /\ missed' = FALSE /\ UNCHANGED <<feed, shown>>
Quiet == UNCHANGED statusVars

(* A call bumps the version in its critical section, unless a statement of   *)
(* it has failed before.                                                     *)
CallFailed(t) ==
    LET e == th[t].entry
    IN  \/ th[t].pc \in {"create", "mkdir"} /\ RowAt(db, e.path) # {}
        \/ th[t].pc = "apply" /\ ~HasRow(db, e.id)
        \/ th[t].pc = "unlink" /\ e.ver # NoVersion /\ ~HasRow(db, e.id)
        \/ th[t].pc = "rename" /\ Clash(db, e.path, th[t].to) # {}
        \/ th[t].pc = "rename" /\ e.ver # NoVersion /\ ~HasRow(db, e.id)

CallEnds(t) ==
    /\ CreateCommit(t) \/ MkdirCommit(t) \/ WriteCommit(t) \/ UnlinkCommit(t)
           \/ RenameCommit(t) \/ ReadCommit(t)
    /\ IF ~CallFailed(t) THEN Bump
       ELSE /\ missed' = (missed \/ th[t].pc = "rename")
            /\ UNCHANGED <<news, feed, shown>>

CallStatus(t) ==
    \/ CallEnds(t)
    \/ /\ WriteCopy(t) \/ ReadDownload(t) \/ ReadDownloadFails(t) \/ ReadStore(t)
       /\ Quiet

(* The critical sections of the worker that change rows, and the end of a    *)
(* refresh, bump the version; a lease and a failed conflict do not.          *)
Bumping == {"u_mark", "u_conflict", "u_finish", "u_commit", "d_commit", "m_commit",
            "r_commit", "l_mark", "l_commit", "fail"}

WorkerStatus ==
    \/ /\ WorkerStep
       /\ IF w.pc \in Bumping /\ ~(w.pc = "u_conflict" /\ w'.pc = "idle")
          THEN Bump ELSE Quiet
    \/ (RefreshCommit \/ RefreshDone) /\ Bump
    \/ /\ \/ RefreshList \/ RefreshSnapshot \/ RefreshBegin
          \/ RefreshMerge \/ RefreshDrop
       /\ Quiet

\* Faulty: nothing is announced any more once no file is busy.
NoticeWhileBusy ==
    /\ feed = "poll" /\ news /\ Items(db) # {}
    /\ news' = FALSE /\ feed' = "summary"
    /\ UNCHANGED <<shown, missed>>

(* The task: a new version is taken note of before the rows are read, so     *)
(* that what changes meanwhile makes another round.                          *)
Notice ==
    /\ feed = "poll" /\ news
    /\ news' = FALSE /\ feed' = "summary"
    /\ UNCHANGED <<shown, missed>>

AnnounceSummary ==
    /\ feed = "summary" /\ ~Locked
    /\ shown' = [shown EXCEPT !.summary = Summary(db)]
    /\ feed' = "items"
    /\ UNCHANGED <<news, missed>>

\* Faulty: last_seen is set to the version there is when the round ends.
AnnounceItemsAndForget ==
    /\ feed = "items" /\ ~Locked
    /\ shown' = [shown EXCEPT !.items = Items(db)]
    /\ feed' = "poll" /\ news' = FALSE
    /\ UNCHANGED missed

AnnounceItems ==
    /\ feed = "items" /\ ~Locked
    /\ shown' = [shown EXCEPT !.items = Items(db)]
    /\ feed' = "poll"
    /\ UNCHANGED <<news, missed>>

FeedStep == (Notice \/ AnnounceSummary \/ AnnounceItems) /\ UNCHANGED vars

(* A killed daemon takes the bus name with it; clients read the properties   *)
(* of the next one.                                                          *)
Restarted ==
    /\ CrashRestart
    /\ news' = FALSE /\ feed' = "poll" /\ missed' = FALSE
    /\ shown' = [summary |-> Summary(db'), items |-> Items(db')]

StatusNext ==
    \/ \E t \in Thread : (Call(t) /\ Quiet) \/ CallStatus(t)
    \/ RequestRefresh /\ Bump
    \/ WorkerStatus
    \/ (NetworkFails \/ OtherClient) /\ Quiet
    \/ Restarted
    \/ FeedStep

StatusSpec == StatusInit /\ [][StatusNext]_<<vars, statusVars>>

(* The task runs every 500 ms; the mutex is released in the end.             *)
LiveStatusSpec ==
    /\ StatusSpec
    /\ \A t \in Thread : WF_<<vars, statusVars>>(CallStatus(t))
    /\ WF_<<vars, statusVars>>(WorkerStatus)
    /\ WF_<<vars, statusVars>>(FeedStep)
-----------------------------------------------------------------------------
(* Between two rounds, with no new version, the bus shows what there is: no  *)
(* change of a row goes without a bump, and no bump is lost to the round     *)
(* that was under way.  Only a rename that stops halfway, or cannot queue its *)
(* operation, has moved rows and returns before the bump (sync.rs 599).      *)
FeedCurrent ==
    feed = "poll" /\ ~news /\ ~missed
        => shown = [summary |-> Summary(db), items |-> Items(db)]

(* In the end the bus shows that all is synchronized.                        *)
EventuallyShown == <>[](AllSynced /\ shown.items = {} /\ shown.summary = Summary(db))
=============================================================================
