--------------------------- MODULE DaemonLifecycle ---------------------------
(****************************************************************************)
(* The daemon as a process: run() of src/src/main.rs, MountManager of       *)
(* src/src/mount.rs and the callback server of src/src/callback.rs, around  *)
(* AuthManager.  The callback server and the D-Bus service work from before *)
(* run() looks for credentials until the process ends.                       *)
(****************************************************************************)
EXTENDS AuthManager

CONSTANTS Capacity,   \* of the channel of CallbackEvents
          Worker      \* the User that is the thread of worker_loop

ASSUME LifecycleAssumption == Capacity \in Nat \ {0} /\ Worker \in User

VARIABLES main,     \* where run() is
          events,   \* the LoginCompleted events in the channel
          thread,   \* where the thread of worker_loop is
          stop,     \* SyncService.stop
          session,  \* MountManager.session, and what its threads do
          stale,    \* the mountpoint is held and no session will give it back
          code      \* the exit code

lifeVars == <<main, events, thread, stop, session, stale, code>>
vars == <<authVars, lifeVars>>

\* all but the events that are left
tokenVars == <<mem, pending, store, holder, call, aged, serial, codes, honoured, dropped>>

TypeOK ==
    /\ AuthTypeOK
    /\ main \in {"boot", "bootmount", "loop", "mount", "emit",
                 "unmount", "join", "stop", "joinworker", "exited"}
    /\ events \in 0 .. Capacity
    /\ thread \in {"none", "top", "busy", "ended"}
    /\ stop \in BOOLEAN
    /\ session \in {"none", "live", "finished", "leaving", "lost"}
    /\ stale \in BOOLEAN
    /\ code \in {"none", "ok", "failed", "killed"}

Boot ==
    /\ main' = "boot" /\ events' = 0 /\ thread' = "none" /\ stop' = FALSE
    /\ session' = "none" /\ code' = "none"

Init ==
    /\ AuthInit
    /\ main = "boot" /\ events = 0 /\ thread = "none" /\ stop = FALSE
    /\ session = "none" /\ stale = FALSE /\ code = "none"

Running == main # "exited"

Fuse == User \ {Worker}   \* the threads of the FUSE session

Idle(U) == \A u \in U : In(u, "idle")
-----------------------------------------------------------------------------
(* start_background: the threads are started once.                           *)
StartBackground == thread' = IF thread = "none" THEN "top" ELSE thread

(* run(): is_authenticated, start_background.                                *)
Start ==
    /\ main = "boot" /\ MutexFree
    /\ IF mem = None THEN main' = "loop" /\ UNCHANGED thread
       ELSE main' = "bootmount" /\ StartBackground
    /\ UNCHANGED <<authVars, events, stop, session, stale, code>>

(* ensure_mounted: a session that has not finished stays; otherwise it is    *)
(* joined and a new one is spawned, which fails on a mountpoint that another *)
(* process left mounted.  An error is logged and run() goes on.               *)
EnsureMounted ==
    \/ session = "live" /\ UNCHANGED session
    \/ session # "live" /\ session' = IF stale THEN "none" ELSE "live"

MountFails == session # "live" /\ session' = "none" /\ Use("trouble")

MountAtBoot ==
    /\ main = "bootmount"
    /\ \/ EnsureMounted /\ UNCHANGED allow
       \/ MountFails
    /\ main' = "loop"
    /\ UNCHANGED <<tokenVars, events, thread, stop, stale, code>>

(* The select! of run(): a LoginCompleted event.                              *)
ReceiveEvent ==
    /\ main = "loop" /\ events > 0
    /\ events' = events - 1
    /\ StartBackground
    /\ main' = "mount"
    /\ UNCHANGED <<authVars, stop, session, stale, code>>

\* Faulty: a login whose mount fails is not announced.
MountAfterLoginOrSilent ==
    /\ main = "mount"
    /\ \/ EnsureMounted /\ main' = "emit" /\ UNCHANGED allow
       \/ MountFails /\ main' = "loop"
    /\ UNCHANGED <<tokenVars, events, thread, stop, stale, code>>

(* The rest of that branch: the login is announced whatever became of the    *)
(* mount.                                                                      *)
MountAfterLogin ==
    /\ main = "mount"
    /\ \/ EnsureMounted /\ UNCHANGED allow
       \/ MountFails
    /\ main' = "emit"
    /\ UNCHANGED <<tokenVars, events, thread, stop, stale, code>>

(* emit_login_completed; an error is logged.                                   *)
EmitLoginCompleted ==
    /\ main = "emit"
    /\ main' = "loop"
    /\ UNCHANGED <<authVars, events, thread, stop, session, stale, code>>

\* Faulty: the channel has no bound.
SendUnbounded(h) ==
    /\ In(h, "send")
    /\ events' = events + 1
    /\ Leave(h)
    /\ UNCHANGED <<mem, pending, store, holder, aged, serial, codes, honoured, dropped, allow,
                   main, thread, stop, session, stale, code>>

(* handle_oauth_callback after complete_login: waits for room in the channel. *)
SendEvent(h) ==
    /\ In(h, "send") /\ events < Capacity
    /\ events' = events + 1
    /\ Leave(h)
    /\ UNCHANGED <<mem, pending, store, holder, aged, serial, codes, honoured, dropped, allow,
                   main, thread, stop, session, stale, code>>
-----------------------------------------------------------------------------
(* SIGINT or SIGTERM, once their handlers are installed.  A signal that comes *)
(* while run() is in an event is taken up afterwards.                          *)
Signal ==
    /\ main = "loop" /\ Use("trouble")
    /\ main' = "unmount"
    /\ UNCHANGED <<tokenVars, events, thread, stop, session, stale, code>>

\* Faulty: the session is unmounted and dropped, its threads are not joined.
UnmountOnly ==
    /\ main = "unmount"
    /\ code' = "ok" /\ session' = "none" /\ main' = "stop"
    /\ UNCHANGED <<authVars, events, thread, stop, stale>>

(* MountManager::shutdown takes the session and calls umount_and_join.  When  *)
(* that cannot unmount, it returns at once and the FUSE threads go on.         *)
Unmount ==
    /\ main = "unmount"
    /\ \/ /\ session = "none"
          /\ code' = "ok" /\ main' = "stop"
          /\ UNCHANGED <<session, stale, allow>>
       \/ /\ session # "none"
          /\ session' = "leaving" /\ main' = "join"
          /\ UNCHANGED <<stale, code, allow>>
       \/ /\ session # "none" /\ Use("trouble")
          /\ session' = IF session = "live" THEN "lost" ELSE "none"
          /\ stale' = (stale \/ session = "live")
          /\ code' = "failed" /\ main' = "stop"
    /\ UNCHANGED <<tokenVars, events, thread, stop>>

(* Unmounted, the FUSE threads end after the requests they are in; the join   *)
(* returns what the session ended with.                                        *)
JoinSession ==
    /\ main = "join" /\ Idle(Fuse)
    /\ \/ code' = "ok" /\ UNCHANGED allow
       \/ code' = "failed" /\ Use("trouble")
    /\ session' = "none" /\ main' = "stop"
    /\ UNCHANGED <<tokenVars, events, thread, stop, stale>>

\* Faulty: the worker is joined and was never told to stop.
StopNothing ==
    /\ main = "stop"
    /\ main' = "joinworker"
    /\ UNCHANGED <<authVars, events, thread, stop, session, stale, code>>

(* SyncService::shutdown, whatever became of the session.                     *)
StopWorker ==
    /\ main = "stop"
    /\ stop' = TRUE /\ main' = "joinworker"
    /\ UNCHANGED <<authVars, events, thread, session, stale, code>>

(* The handle of the worker is joined if there is one, then the process ends  *)
(* with every thread that is left.                                             *)
JoinWorker ==
    /\ main = "joinworker" /\ thread \in {"none", "ended"}
    /\ main' = "exited" /\ thread' = "none" /\ session' = "none"
    /\ UNCHANGED <<authVars, events, stop, stale, code>>

(* worker_loop looks at the flag between two operations only.                 *)
WorkerLoop ==
    /\ \/ thread = "top" /\ thread' = IF stop THEN "ended" ELSE "busy"
       \/ thread = "busy" /\ In(Worker, "idle") /\ thread' = "top"
    /\ UNCHANGED <<authVars, main, events, stop, session, stale, code>>

(* A kill at any time, or a signal before the handlers are installed: what   *)
(* is mounted stays mounted.                                                   *)
Killed ==
    /\ Running /\ Use("trouble")
    /\ main' = "exited" /\ code' = "killed"
    /\ stale' = (stale \/ session = "live")
    /\ thread' = "none" /\ session' = "none"
    /\ UNCHANGED <<tokenVars, events, stop>>

(* Somebody unmounts the file system: the session finishes by itself, after   *)
(* the requests its threads are in.                                            *)
UnmountedOutside ==
    /\ Running /\ session = "live" /\ Idle(Fuse) /\ Use("trouble")
    /\ session' = "finished"
    /\ UNCHANGED <<tokenVars, main, events, thread, stop, stale, code>>

(* The daemon is started again.                                                *)
Restart ==
    /\ main = "exited"
    /\ NewProcess
    /\ Boot
    /\ UNCHANGED <<store, aged, serial, codes, honoured, allow, stale>>
-----------------------------------------------------------------------------
RunStep == Start \/ MountAtBoot \/ ReceiveEvent \/ MountAfterLogin \/ EmitLoginCompleted
           \/ Unmount \/ JoinSession \/ StopWorker \/ JoinWorker

(* The select! has nothing to take.                                           *)
Wait == main = "loop" /\ events = 0 /\ UNCHANGED vars

(* callback_handle.abort() stops the listener; requests in progress go on.    *)
Listening == main \notin {"unmount", "join", "stop", "joinworker"}

LoginStep ==
    \/ BeginLogin \/ LoginAges
    \/ \E h \in Handler : (Listening /\ Callback(h)) \/ CompleteLogin(h)
                          \/ ExchangeFails(h) \/ SaveLoginFails(h)

(* The worker needs a token in an operation, the FUSE threads in a request.   *)
AtWork(u) ==
    IF u = Worker THEN thread = "busy" ELSE session \in {"live", "leaving", "lost"}

TokenStep ==
    \E u \in User : \/ AtWork(u) /\ NeedToken(u)
                    \/ RefreshToken(u) \/ RefreshFails(u) \/ SaveRefreshedFails(u)

Next ==
    \/ RunStep \/ Wait \/ Signal \/ Killed \/ UnmountedOutside \/ Restart
    \/ Running /\ WorkerLoop
    \/ Running /\ (LoginStep \/ TokenStep) /\ UNCHANGED lifeVars
    \/ Running /\ \E h \in Handler : SendEvent(h)

Spec == Init /\ [][Next]_vars

(* run(), the handlers, the worker and the threads in a call all go on:       *)
(* nothing they wait for is held for ever.                                     *)
Fairness ==
    /\ WF_vars(RunStep)
    /\ WF_vars(Running /\ WorkerLoop)
    /\ \A h \in Handler :
          WF_vars(Running /\ ((CompleteLogin(h) /\ UNCHANGED lifeVars) \/ SendEvent(h)))
    /\ \A u \in User : WF_vars(Running /\ RefreshToken(u) /\ UNCHANGED lifeVars)

LiveSpec == Spec /\ Fairness
-----------------------------------------------------------------------------
(* Unless the server's answer to a refresh was lost or could not be saved,   *)
(* the tokens in memory and those in the Secret Service are ones the server  *)
(* still takes, whatever logins and refreshes overlap: neither the running   *)
(* daemon nor the next one needs a new login.                                 *)
TokensUsable ==
    ~dropped =>
        /\ MutexFree /\ mem # None => mem \in honoured
        /\ store # None /\ (\A u \in User : ~In(u, "resave")) => store \in honoured

(* No two threads give the server the same refresh token: the second of two  *)
(* that find their token expired waits for the first and uses the new one.    *)
NoTokenReuse ==
    \A u \in User : In(u, "refresh") /\ ~dropped => call[u].token \in honoured

(* Who is logged in stays logged in: no step, a kill and restart included,   *)
(* takes a daemon with credentials to one without.                            *)
StaysLoggedIn == [][mem # None => mem' # None]_vars

(* A daemon that ends in order leaves no operation of the worker half done,  *)
(* and with exit code 0 no request of a FUSE thread either: no refreshed set  *)
(* of tokens is lost by stopping it, whatever was in progress at the signal.  *)
CleanExit ==
    main = "exited" =>
        /\ code \in {"ok", "failed"} => Idle({Worker})
        /\ code = "ok" => Idle(User)

(* A daemon that was asked to stop ends, whatever its threads are in: the     *)
(* worker sees the flag, and no join waits for one that never will.           *)
ShutdownEnds == main = "unmount" ~> main = "exited"

(* A login that was completed is announced by the signal LoginCompleted,     *)
(* whether or not the mount succeeds, unless the daemon ends.                 *)
LoginAnnounced ==
    \A h \in Handler : In(h, "send") ~> (main = "emit" \/ main = "exited")

(* dbus-oauth-login, "Concurrent login attempt is rejected": BeginLogin      *)
(* while another login flow is pending does not create a second one.          *)
OneLoginFlow ==
    LET taken == {call[h].login : h \in {x \in Handler : In(x, "exchange") \/ In(x, "restore")}}
    IN  Cardinality(({pending} \cup taken) \ {None}) <= 1
=============================================================================
