----------------------------- MODULE DaemonProofs ----------------------------
(****************************************************************************)
(* Theorems about the daemon with its logins and tokens, for any number of   *)
(* callback requests, threads, logins, refreshes, failures, kills and        *)
(* restarts.  They follow from one inductive invariant, Inv: which token     *)
(* sets are whose, and which threads can be in a call at each step of run(). *)
(****************************************************************************)
EXTENDS DaemonLifecycle, TLAPS

(* Handlers are in logins and users in refreshes; a user in a refresh holds  *)
(* the mutex, alone.                                                          *)
Roles ==
    /\ \A h \in Handler : ~In(h, "refresh") /\ ~In(h, "resave")
    /\ \A u \in User : call[u].pc \in {"idle", "refresh", "resave"}
    /\ \A u \in User : u \in holder <=> ~In(u, "idle")
    /\ \A u, v \in holder : u = v

(* Token sets are numbered from 1 on.                                         *)
Numbered ==
    /\ mem <= serial /\ store <= serial
    /\ \A s \in honoured : 0 < s /\ s <= serial
    /\ \A c \in Caller : call[c].token <= serial

(* A login's new set is good, and nobody else has it before it is installed. *)
Bearer(h) == In(h, "save") \/ In(h, "install")

LoginsApart ==
    \A h \in Handler : Bearer(h) =>
        /\ call[h].token \in honoured /\ call[h].token # mem
        /\ \A u \in User : In(u, "resave") => call[u].token # call[h].token
        /\ \A g \in Handler \ {h} : Bearer(g) => call[g].token # call[h].token

(* A refresh is of the set in memory, and the set it returns with is good.   *)
RefreshOfMemory ==
    \A u \in User :
        /\ In(u, "refresh") => call[u].token = mem /\ mem # None
        /\ In(u, "resave") => call[u].token \in honoured

(* The Secret Service has tokens whenever memory has, or is about to.         *)
Saved ==
    /\ mem # None => store # None
    /\ \A h \in Handler : In(h, "install") => store # None

Usable ==
    ~dropped /\ (\A u \in User : ~In(u, "resave")) =>
        /\ mem # None => mem \in honoured
        /\ store # None => store \in honoured

TokenInv ==
    /\ AuthTypeOK
    /\ Roles /\ Numbered /\ LoginsApart /\ RefreshOfMemory /\ Saved /\ Usable

(* Who may be in a call: the worker in an operation, a FUSE thread while     *)
(* there is a session.  Unless the session is lost, no thread of it is left   *)
(* once run() goes on to the worker; none of the worker once that is joined.  *)
Quiet ==
    Running =>
        /\ thread # "busy" => Idle({Worker})
        /\ session \in {"none", "finished"} => Idle(Fuse)
        /\ main \in {"stop", "joinworker"} =>
              code = "failed" \/ (code = "ok" /\ session = "none")
        /\ session = "leaving" => main = "join"
        /\ session = "lost" => main \in {"stop", "joinworker"}

Inv == TypeOK /\ TokenInv /\ Quiet /\ CleanExit
-----------------------------------------------------------------------------
LEMMA UseType ==
    ASSUME AuthTypeOK, NEW kind \in {"login", "refresh", "trouble"}, Use(kind)
    PROVE  allow' \in Limit
BY DEF AuthTypeOK, Limit, Use

(* What leaves the logins and tokens alone keeps the invariant about them.   *)
LEMMA TokensAlone ==
    ASSUME TokenInv, allow' \in Limit,
           UNCHANGED <<mem, pending, store, holder, call, aged, serial, codes, honoured, dropped>>
    PROVE  TokenInv'
<1>1. AuthTypeOK'
  BY DEF TokenInv, AuthTypeOK
<1>2. Roles' /\ Numbered' /\ LoginsApart' /\ RefreshOfMemory' /\ Saved' /\ Usable'
  BY DEF TokenInv, Roles, Numbered, LoginsApart, RefreshOfMemory, Saved, Usable, Bearer, In
<1>3. QED
  BY <1>1, <1>2 DEF TokenInv

(* The steps of logins.                                                       *)
LEMMA BeginLoginKeeps == ASSUME TokenInv, BeginLogin PROVE TokenInv'
<1>1. AuthTypeOK'
  BY UseType DEF TokenInv, BeginLogin, AuthTypeOK
<1>2. Roles' /\ Numbered'
  BY DEF TokenInv, BeginLogin, AuthTypeOK, Call, Roles, Numbered, In
<1>3. LoginsApart' /\ RefreshOfMemory'
  BY DEF TokenInv, BeginLogin, LoginsApart, RefreshOfMemory, Bearer, In
<1>4. Saved' /\ Usable'
  BY DEF TokenInv, BeginLogin, Saved, Usable, In
<1>5. QED
  BY <1>1, <1>2, <1>3, <1>4 DEF TokenInv

LEMMA LoginAgesKeeps == ASSUME TokenInv, LoginAges PROVE TokenInv'
<1>1. AuthTypeOK'
  BY DEF TokenInv, LoginAges, AuthTypeOK
<1>2. Roles' /\ Numbered'
  BY DEF TokenInv, LoginAges, Roles, Numbered, In
<1>3. LoginsApart' /\ RefreshOfMemory'
  BY DEF TokenInv, LoginAges, LoginsApart, RefreshOfMemory, Bearer, In
<1>4. Saved' /\ Usable'
  BY DEF TokenInv, LoginAges, Saved, Usable, In
<1>5. QED
  BY <1>1, <1>2, <1>3, <1>4 DEF TokenInv

LEMMA CallbackKeeps == ASSUME TokenInv, NEW h \in Handler, Callback(h) PROVE TokenInv'
<1>1. AuthTypeOK'
  <2>1. PICK v \in codes : call' = [call EXCEPT ![h] = [IdleCall EXCEPT !.pc = "take", !.code = v]]
    BY DEF Callback
  <2>2. [IdleCall EXCEPT !.pc = "take", !.code = v] \in Call
    BY DEF TokenInv, AuthTypeOK, Call, IdleCall, None
  <2>3. call' \in [Caller -> Call]
    BY <2>1, <2>2 DEF TokenInv, AuthTypeOK
  <2>4. QED
    BY <2>3 DEF TokenInv, Callback, AuthTypeOK
<1>2. Roles' /\ Numbered'
  BY AuthAssumption DEF TokenInv, Callback, AuthTypeOK, IdleCall, None, Roles, Numbered, In
<1>3. LoginsApart' /\ RefreshOfMemory'
  BY DEF TokenInv, Callback, LoginsApart, RefreshOfMemory, Bearer, In
<1>4. Saved' /\ Usable'
  BY DEF TokenInv, Callback, Saved, Usable, In
<1>5. QED
  BY <1>1, <1>2, <1>3, <1>4 DEF TokenInv

LEMMA TakeLoginKeeps == ASSUME TokenInv, NEW h \in Handler, TakeLogin(h) PROVE TokenInv'
<1>1. AuthTypeOK'
  BY DEF TokenInv, TakeLogin, Leave, AuthTypeOK, Call, IdleCall, None
<1>2. Roles' /\ Numbered'
  BY DEF TokenInv, TakeLogin, Leave, AuthTypeOK, Call, Caller, IdleCall, None, Roles, Numbered,
     In
<1>3. LoginsApart' /\ RefreshOfMemory'
  BY DEF TokenInv, TakeLogin, Leave, AuthTypeOK, Call, Caller, IdleCall, LoginsApart,
     RefreshOfMemory, Bearer, In
<1>4. Saved' /\ Usable'
  BY DEF TokenInv, TakeLogin, Leave, AuthTypeOK, Call, Caller, IdleCall, Saved, Usable, In
<1>5. QED
  BY <1>1, <1>2, <1>3, <1>4 DEF TokenInv

LEMMA ExchangeKeeps == ASSUME TokenInv, NEW h \in Handler, Exchange(h) PROVE TokenInv'
<1>1. AuthTypeOK'
  BY DEF TokenInv, Exchange, AuthTypeOK, Call
<1>2. Roles' /\ Numbered'
  BY DEF TokenInv, Exchange, AuthTypeOK, Call, Caller, Roles, Numbered, In
<1>3. LoginsApart' /\ RefreshOfMemory'
  BY DEF TokenInv, Exchange, AuthTypeOK, Call, Caller, Numbered, LoginsApart, RefreshOfMemory,
     Bearer, In
<1>4. Saved' /\ Usable'
  BY DEF TokenInv, Exchange, AuthTypeOK, Call, Caller, Saved, Usable, In
<1>5. QED
  BY <1>1, <1>2, <1>3, <1>4 DEF TokenInv

LEMMA ExchangeFailsKeeps == ASSUME TokenInv, NEW h \in Handler, ExchangeFails(h) PROVE TokenInv'
<1>1. AuthTypeOK'
  BY UseType DEF TokenInv, ExchangeFails, AuthTypeOK, Call
<1>2. Roles' /\ Numbered'
  BY DEF TokenInv, ExchangeFails, Roles, Numbered, In
<1>3. LoginsApart' /\ RefreshOfMemory'
  BY DEF TokenInv, ExchangeFails, LoginsApart, RefreshOfMemory, Bearer, In
<1>4. Saved' /\ Usable'
  BY DEF TokenInv, ExchangeFails, Saved, Usable, In
<1>5. QED
  BY <1>1, <1>2, <1>3, <1>4 DEF TokenInv

LEMMA RestoreLoginKeeps == ASSUME TokenInv, NEW h \in Handler, RestoreLogin(h) PROVE TokenInv'
<1>1. AuthTypeOK'
  BY DEF TokenInv, RestoreLogin, Leave, AuthTypeOK, Call, Caller, IdleCall, None
<1>2. Roles' /\ Numbered'
  BY DEF TokenInv, RestoreLogin, Leave, AuthTypeOK, IdleCall, None, Roles, Numbered, In
<1>3. LoginsApart' /\ RefreshOfMemory'
  BY DEF TokenInv, RestoreLogin, Leave, IdleCall, LoginsApart, RefreshOfMemory, Bearer, In
<1>4. Saved' /\ Usable'
  BY DEF TokenInv, RestoreLogin, Leave, IdleCall, Saved, Usable, In
<1>5. QED
  BY <1>1, <1>2, <1>3, <1>4 DEF TokenInv

LEMMA SaveLoginKeeps == ASSUME TokenInv, NEW h \in Handler, SaveLogin(h) PROVE TokenInv'
<1>1. AuthTypeOK'
  BY DEF TokenInv, SaveLogin, AuthTypeOK, Call, Caller
<1>2. Roles' /\ Numbered'
  BY DEF TokenInv, SaveLogin, Caller, Roles, Numbered, In
<1>3. LoginsApart' /\ RefreshOfMemory'
  BY DEF TokenInv, SaveLogin, LoginsApart, RefreshOfMemory, Bearer, In
<1>4. Saved' /\ Usable'
  BY DEF TokenInv, SaveLogin, None, Numbered, LoginsApart, Saved, Usable, Bearer, In
<1>5. QED
  BY <1>1, <1>2, <1>3, <1>4 DEF TokenInv

LEMMA SaveLoginFailsKeeps == ASSUME TokenInv, NEW h \in Handler, SaveLoginFails(h) PROVE TokenInv'
<1>1. AuthTypeOK'
  BY UseType DEF TokenInv, SaveLoginFails, Leave, AuthTypeOK, Call, IdleCall, None
<1>2. Roles' /\ Numbered'
  BY DEF TokenInv, SaveLoginFails, Leave, AuthTypeOK, IdleCall, None, Roles, Numbered, In
<1>3. LoginsApart' /\ RefreshOfMemory'
  BY DEF TokenInv, SaveLoginFails, Leave, IdleCall, LoginsApart, RefreshOfMemory, Bearer, In
<1>4. Saved' /\ Usable'
  BY DEF TokenInv, SaveLoginFails, Leave, IdleCall, Saved, Usable, In
<1>5. QED
  BY <1>1, <1>2, <1>3, <1>4 DEF TokenInv

LEMMA InstallLoginKeeps == ASSUME TokenInv, NEW h \in Handler, InstallLogin(h) PROVE TokenInv'
<1>1. AuthTypeOK'
  BY DEF TokenInv, InstallLogin, AuthTypeOK, Call, Caller
<1>2. Roles' /\ Numbered'
  BY DEF TokenInv, InstallLogin, Caller, Roles, Numbered, In
<1>3. LoginsApart' /\ RefreshOfMemory'
  BY DEF TokenInv, InstallLogin, MutexFree, AuthTypeOK, Caller, Roles, LoginsApart,
     RefreshOfMemory, Bearer, In
<1>4. Saved' /\ Usable'
  BY DEF TokenInv, InstallLogin, LoginsApart, Saved, Usable, Bearer, In
<1>5. QED
  BY <1>1, <1>2, <1>3, <1>4 DEF TokenInv

(* The steps of refreshes.                                                    *)
LEMMA NeedTokenKeeps == ASSUME TokenInv, NEW u \in User, NeedToken(u) PROVE TokenInv'
<1>1. AuthTypeOK'
  BY UseType DEF TokenInv, NeedToken, AuthTypeOK, Call
<1>2. Roles' /\ Numbered'
  BY AuthAssumption DEF TokenInv, NeedToken, MutexFree, AuthTypeOK, Caller, Roles, Numbered, In
<1>3. LoginsApart' /\ RefreshOfMemory'
  BY DEF TokenInv, NeedToken, AuthTypeOK, Caller, LoginsApart, RefreshOfMemory, Bearer, In
<1>4. Saved' /\ Usable'
  BY DEF TokenInv, NeedToken, AuthTypeOK, Caller, Saved, Usable, In
<1>5. QED
  BY <1>1, <1>2, <1>3, <1>4 DEF TokenInv

LEMMA RefreshCallKeeps == ASSUME TokenInv, NEW u \in User, RefreshCall(u) PROVE TokenInv'
<1>1. AuthTypeOK'
  BY DEF TokenInv, RefreshCall, Leave, AuthTypeOK, Call, IdleCall, None
<1>2. Roles' /\ Numbered'
  BY DEF TokenInv, RefreshCall, Leave, AuthTypeOK, Call, Caller, IdleCall, None, Roles,
     Numbered, In
<1>3. LoginsApart' /\ RefreshOfMemory'
  BY DEF TokenInv, RefreshCall, Leave, AuthTypeOK, Call, Caller, IdleCall, LoginsApart,
     RefreshOfMemory, Bearer, In
<1>4. Saved' /\ Usable'
  BY DEF TokenInv, RefreshCall, AuthTypeOK, Call, Caller, Roles, RefreshOfMemory, Saved, Usable,
     In
<1>5. QED
  BY <1>1, <1>2, <1>3, <1>4 DEF TokenInv

LEMMA RefreshFailsKeeps == ASSUME TokenInv, NEW u \in User, RefreshFails(u) PROVE TokenInv'
<1>1. AuthTypeOK'
  BY UseType DEF TokenInv, RefreshFails, Leave, AuthTypeOK, Call, IdleCall, None
<1>2. Roles' /\ Numbered'
  BY DEF TokenInv, RefreshFails, Leave, AuthTypeOK, Caller, IdleCall, None, Roles, Numbered, In
<1>3. LoginsApart' /\ RefreshOfMemory'
  BY DEF TokenInv, RefreshFails, Leave, IdleCall, Roles, LoginsApart, RefreshOfMemory, Bearer,
     In
<1>4. Saved' /\ Usable'
  BY DEF TokenInv, RefreshFails, Roles, RefreshOfMemory, Saved, Usable, In
<1>5. QED
  BY <1>1, <1>2, <1>3, <1>4 DEF TokenInv

LEMMA SaveRefreshedKeeps == ASSUME TokenInv, NEW u \in User, SaveRefreshed(u) PROVE TokenInv'
<1>1. AuthTypeOK'
  BY DEF TokenInv, SaveRefreshed, Leave, AuthTypeOK, Call, Caller, IdleCall, None
<1>2. Roles' /\ Numbered'
  BY DEF TokenInv, SaveRefreshed, Leave, AuthTypeOK, Caller, IdleCall, None, Roles, Numbered, In
<1>3. LoginsApart' /\ RefreshOfMemory'
  BY DEF TokenInv, SaveRefreshed, Leave, IdleCall, Roles, LoginsApart, RefreshOfMemory, Bearer,
     In
<1>4. Saved' /\ Usable'
  BY DEF TokenInv, SaveRefreshed, None, Numbered, RefreshOfMemory, Saved, Usable
<1>5. QED
  BY <1>1, <1>2, <1>3, <1>4 DEF TokenInv

LEMMA SaveRefreshedFailsKeeps == ASSUME TokenInv, NEW u \in User, SaveRefreshedFails(u) PROVE TokenInv'
<1>1. AuthTypeOK'
  BY UseType DEF TokenInv, SaveRefreshedFails, Leave, AuthTypeOK, Call, IdleCall, None
<1>2. Roles' /\ Numbered'
  BY DEF TokenInv, SaveRefreshedFails, Leave, AuthTypeOK, Caller, IdleCall, None, Roles,
     Numbered, In
<1>3. LoginsApart' /\ RefreshOfMemory'
  BY DEF TokenInv, SaveRefreshedFails, Leave, IdleCall, LoginsApart, RefreshOfMemory, Bearer, In
<1>4. Saved' /\ Usable'
  BY DEF TokenInv, SaveRefreshedFails, Leave, Roles, Saved, Usable, In
<1>5. QED
  BY <1>1, <1>2, <1>3, <1>4 DEF TokenInv

(* A new process starts from the Secret Service.                              *)
LEMMA NewProcessKeeps ==
    ASSUME TokenInv, NewProcess, UNCHANGED <<store, aged, serial, codes, honoured, allow>>
    PROVE  TokenInv'
<1>1. AuthTypeOK'
  BY DEF TokenInv, NewProcess, AuthTypeOK, Call, Caller, IdleCall, None
<1>2. Roles' /\ Numbered'
  BY DEF TokenInv, NewProcess, AuthTypeOK, Caller, IdleCall, None, Roles, Numbered, In
<1>3. LoginsApart' /\ RefreshOfMemory'
  BY DEF NewProcess, Caller, IdleCall, LoginsApart, RefreshOfMemory, Bearer, In
<1>4. Saved' /\ Usable'
  BY DEF TokenInv, NewProcess, AuthTypeOK, Caller, IdleCall, Saved, Usable, In
<1>5. QED
  BY <1>1, <1>2, <1>3, <1>4 DEF TokenInv
-----------------------------------------------------------------------------
(* Logins and refreshes leave run() alone, and run() leaves them alone.      *)
LEMMA LoginKeeps == ASSUME TokenInv, LoginStep PROVE TokenInv'
<1>1. CASE BeginLogin
  BY <1>1, BeginLoginKeeps
<1>2. CASE LoginAges
  BY <1>2, LoginAgesKeeps
<1>3. ASSUME NEW h \in Handler, Callback(h) PROVE TokenInv'
  BY <1>3, CallbackKeeps
<1>4. ASSUME NEW h \in Handler, CompleteLogin(h) PROVE TokenInv'
  BY <1>4, TakeLoginKeeps, ExchangeKeeps, RestoreLoginKeeps, SaveLoginKeeps, InstallLoginKeeps
     DEF CompleteLogin
<1>5. ASSUME NEW h \in Handler, ExchangeFails(h) \/ SaveLoginFails(h) PROVE TokenInv'
  BY <1>5, ExchangeFailsKeeps, SaveLoginFailsKeeps
<1>6. QED
  BY <1>1, <1>2, <1>3, <1>4, <1>5 DEF LoginStep

LEMMA RefreshKeeps == ASSUME TokenInv, TokenStep PROVE TokenInv'
BY NeedTokenKeeps, RefreshCallKeeps, RefreshFailsKeeps, SaveRefreshedKeeps,
   SaveRefreshedFailsKeeps DEF TokenStep, RefreshToken

(* SendEvent ends a login that is installed.                                  *)
LEMMA SendEventKeeps == ASSUME TokenInv, NEW h \in Handler, SendEvent(h) PROVE TokenInv'
<1>1. AuthTypeOK'
  BY DEF TokenInv, SendEvent, Leave, AuthTypeOK, Call, Caller, IdleCall, None
<1>2. Roles' /\ Numbered'
  BY AuthAssumption DEF TokenInv, SendEvent, Leave, AuthTypeOK, Call, Caller, IdleCall, None,
     Roles, Numbered, In
<1>3. LoginsApart' /\ RefreshOfMemory'
  BY AuthAssumption DEF TokenInv, SendEvent, Leave, AuthTypeOK, Call, Caller, IdleCall, None,
     Roles, Numbered, LoginsApart, RefreshOfMemory, Bearer, In
<1>4. Saved' /\ Usable'
  BY AuthAssumption DEF TokenInv, SendEvent, Leave, AuthTypeOK, Call, Caller, IdleCall,
     Saved, Usable, In
<1>5. QED
  BY <1>1, <1>2, <1>3, <1>4 DEF TokenInv

LEMMA RunKeeps ==
    ASSUME TokenInv, RunStep \/ WorkerLoop \/ Signal \/ Killed \/ UnmountedOutside
    PROVE  TokenInv'
<1>1. UNCHANGED tokenVars
  BY DEF RunStep, Start, MountAtBoot, ReceiveEvent, MountAfterLogin, EmitLoginCompleted, Unmount,
         JoinSession, StopWorker, JoinWorker, WorkerLoop, Signal, Killed, UnmountedOutside,
         authVars, tokenVars
<1>2. AuthTypeOK
  BY DEF TokenInv
<1>3. allow' = allow \/ Use("trouble")
  BY DEF RunStep, Start, MountAtBoot, ReceiveEvent, MountAfterLogin, EmitLoginCompleted, Unmount,
         JoinSession, StopWorker, JoinWorker, WorkerLoop, Signal, Killed, UnmountedOutside,
         MountFails, authVars
<1>4. allow' \in Limit
  BY <1>2, <1>3, UseType DEF AuthTypeOK
<1>5. QED
  BY <1>1, <1>4, TokensAlone DEF tokenVars

LEMMA TokenInvKept == ASSUME TokenInv, [Next]_vars PROVE TokenInv'
<1>1. CASE RunStep \/ WorkerLoop \/ Signal \/ Killed \/ UnmountedOutside
  BY <1>1, RunKeeps
<1>2. CASE Wait \/ UNCHANGED vars
  BY <1>2, TokensAlone DEF Wait, vars, authVars, TokenInv, AuthTypeOK
<1>3. CASE Restart
  BY <1>3, NewProcessKeeps DEF Restart
<1>4. CASE LoginStep \/ TokenStep
  BY <1>4, LoginKeeps, RefreshKeeps
<1>5. ASSUME NEW h \in Handler, SendEvent(h) PROVE TokenInv'
  BY <1>5, SendEventKeeps
<1>6. QED
  BY <1>1, <1>2, <1>3, <1>4, <1>5 DEF Next

(* Where run() and its threads are has its type.                              *)
LifeTypeOK ==
    /\ main \in {"boot", "bootmount", "loop", "mount", "emit",
                 "unmount", "join", "stop", "joinworker", "exited"}
    /\ events \in 0 .. Capacity
    /\ thread \in {"none", "top", "busy", "ended"}
    /\ stop \in BOOLEAN
    /\ session \in {"none", "live", "finished", "leaving", "lost"}
    /\ stale \in BOOLEAN
    /\ code \in {"none", "ok", "failed", "killed"}

LEMMA LifeTypeKept == ASSUME LifeTypeOK, [Next]_vars PROVE LifeTypeOK'
<1>1. CASE RunStep
  <2>1. stop' \in BOOLEAN
    BY <1>1, Zenon DEF LifeTypeOK, RunStep, Start, MountAtBoot, ReceiveEvent, MountAfterLogin,
       EmitLoginCompleted, Unmount, JoinSession, StopWorker, JoinWorker
  <2>2. CASE Start \/ ReceiveEvent \/ EmitLoginCompleted \/ StopWorker \/ JoinWorker
    <3>1. stale' \in BOOLEAN
      BY <2>2, Zenon DEF LifeTypeOK, Start, ReceiveEvent, EmitLoginCompleted, StopWorker, JoinWorker
    <3>2. events' \in 0 .. Capacity
      BY <2>2, LifecycleAssumption
         DEF LifeTypeOK, Start, ReceiveEvent, EmitLoginCompleted, StopWorker, JoinWorker
    <3>3. QED
      BY <2>1, <2>2, <3>1, <3>2 DEF LifeTypeOK, StartBackground, Start, ReceiveEvent,
         EmitLoginCompleted, StopWorker, JoinWorker
  <2>3. CASE MountAtBoot \/ MountAfterLogin
    BY <2>3 DEF LifeTypeOK, MountAtBoot, MountAfterLogin, EnsureMounted, MountFails
  <2>4. CASE Unmount \/ JoinSession
    BY <2>4 DEF LifeTypeOK, Unmount, JoinSession
  <2>5. QED
    BY <1>1, <2>2, <2>3, <2>4 DEF RunStep
<1>2. CASE WorkerLoop \/ Signal \/ Killed \/ UnmountedOutside
  BY <1>2 DEF LifeTypeOK, WorkerLoop, Signal, Killed, UnmountedOutside
<1>3. CASE Wait \/ UNCHANGED vars
  BY <1>3 DEF LifeTypeOK, Wait, vars, lifeVars
<1>4. CASE Restart
  <2>1. stop' \in BOOLEAN /\ stale' \in BOOLEAN
    BY <1>4, Zenon DEF LifeTypeOK, Restart, Boot
  <2>2. events' \in 0 .. Capacity
    BY <1>4, LifecycleAssumption DEF Restart, Boot
  <2>3. QED
    BY <1>4, <2>1, <2>2 DEF LifeTypeOK, Restart, Boot
<1>5. CASE UNCHANGED lifeVars
  BY <1>5 DEF LifeTypeOK, lifeVars
<1>6. ASSUME NEW h \in Handler, SendEvent(h) PROVE LifeTypeOK'
  BY <1>6, LifecycleAssumption DEF LifeTypeOK, SendEvent
<1>7. QED
  BY <1>1, <1>2, <1>3, <1>4, <1>5, <1>6 DEF Next
-----------------------------------------------------------------------------
(* Who is in a call.  A login is no call of the worker or of a FUSE thread.   *)
LEMMA LoginIdle ==
    ASSUME TokenInv, LoginStep, NEW u \in User, In(u, "idle") PROVE In(u, "idle")'
BY AuthAssumption DEF TokenInv, AuthTypeOK, Caller, LoginStep, BeginLogin, LoginAges, Callback,
   CompleteLogin, TakeLogin, Exchange, ExchangeFails, RestoreLogin, SaveLogin, SaveLoginFails,
   InstallLogin, Leave, In

(* A thread that is at rest and not at work stays at rest.                    *)
LEMMA TokenIdle ==
    ASSUME TokenInv, TokenStep, NEW u \in User, In(u, "idle"), ~AtWork(u)
    PROVE  In(u, "idle")'
<1>1. PICK v \in User : \/ AtWork(v) /\ NeedToken(v)
                        \/ RefreshToken(v) \/ RefreshFails(v) \/ SaveRefreshedFails(v)
  BY DEF TokenStep
<1>2. v # u
  BY <1>1 DEF RefreshToken, RefreshCall, SaveRefreshed, RefreshFails, SaveRefreshedFails, In
<1>3. QED
  BY <1>1, <1>2 DEF TokenInv, AuthTypeOK, Caller, NeedToken, RefreshToken, RefreshCall,
     SaveRefreshed, RefreshFails, SaveRefreshedFails, Leave, In

LEMMA SendIdle ==
    ASSUME TokenInv, NEW h \in Handler, SendEvent(h), NEW u \in User, In(u, "idle")
    PROVE  In(u, "idle")'
BY AuthAssumption DEF TokenInv, AuthTypeOK, Caller, SendEvent, Leave, In

LEMMA QuietKept == ASSUME LifeTypeOK, TokenInv, Quiet, [Next]_vars PROVE Quiet'
<1> USE LifecycleAssumption
<1>1. CASE RunStep
  <2>1. UNCHANGED call
    BY <1>1 DEF RunStep, Start, MountAtBoot, ReceiveEvent, MountAfterLogin, EmitLoginCompleted,
       Unmount, JoinSession, StopWorker, JoinWorker, authVars, tokenVars
  <2>2. CASE Start \/ ReceiveEvent \/ EmitLoginCompleted
    BY <2>1, <2>2 DEF Quiet, Running, Idle, In, Start, ReceiveEvent, EmitLoginCompleted,
       StartBackground
  <2>3. CASE MountAtBoot \/ MountAfterLogin
    BY <2>1, <2>3 DEF LifeTypeOK, Quiet, Running, Idle, In, MountAtBoot, MountAfterLogin,
       EnsureMounted, MountFails
  <2>4. CASE Unmount
    BY <2>1, <2>4 DEF LifeTypeOK, Quiet, Running, Idle, In, Unmount
  <2>5. CASE JoinSession
    BY <2>1, <2>5 DEF Quiet, Running, Idle, In, JoinSession
  <2>6. CASE StopWorker \/ JoinWorker
    BY <2>1, <2>6 DEF Quiet, Running, Idle, In, StopWorker, JoinWorker
  <2>7. QED
    BY <1>1, <2>2, <2>3, <2>4, <2>5, <2>6 DEF RunStep
<1>2. CASE Running /\ WorkerLoop
  BY <1>2 DEF Quiet, Running, Idle, In, WorkerLoop, authVars
<1>3. CASE Signal \/ Killed \/ UnmountedOutside
  BY <1>3 DEF Quiet, Running, Idle, In, Signal, Killed, UnmountedOutside, tokenVars
<1>4. CASE Wait \/ UNCHANGED vars
  BY <1>4 DEF Quiet, Running, Idle, In, Wait, vars, authVars, lifeVars
<1>5. CASE Restart
  BY <1>5 DEF Quiet, Running, Idle, In, Fuse, Restart, NewProcess, Boot, Caller, IdleCall
<1>6. CASE Running /\ (LoginStep \/ TokenStep) /\ UNCHANGED lifeVars
  <2>1. ASSUME NEW u \in User, In(u, "idle"), ~AtWork(u) PROVE In(u, "idle")'
    BY <1>6, <2>1, LoginIdle, TokenIdle
  <2>2. ASSUME thread # "busy" PROVE Idle({Worker})'
    BY <1>6, <2>1, <2>2 DEF Quiet, Idle, AtWork
  <2>3. ASSUME session \in {"none", "finished"} PROVE Idle(Fuse)'
    BY <1>6, <2>1, <2>3 DEF Quiet, Idle, AtWork, Fuse
  <2>4. QED
    BY <1>6, <2>2, <2>3 DEF Quiet, Running, lifeVars
<1>7. ASSUME Running, NEW h \in Handler, SendEvent(h) PROVE Quiet'
  <2>1. ASSUME NEW u \in User, In(u, "idle") PROVE In(u, "idle")'
    BY <1>7, <2>1, SendIdle
  <2>2. ASSUME thread # "busy" PROVE Idle({Worker})'
    BY <1>7, <2>1, <2>2 DEF Quiet, Idle
  <2>3. ASSUME session \in {"none", "finished"} PROVE Idle(Fuse)'
    BY <1>7, <2>1, <2>3 DEF Quiet, Idle, Fuse
  <2>4. QED
    BY <1>7, <2>2, <2>3 DEF Quiet, Running, SendEvent
<1>8. QED
  BY <1>1, <1>2, <1>3, <1>4, <1>5, <1>6, <1>7 DEF Next

(* run() comes to its end through the join of the worker or by a kill.        *)
LEMMA CleanExitKept == ASSUME Quiet, CleanExit, [Next]_vars PROVE CleanExit'
<1>1. CASE JoinWorker
  <2>1. Idle({Worker}) /\ (code = "ok" => Idle(Fuse))
    BY <1>1 DEF JoinWorker, Quiet, Running
  <2>2. code = "ok" => Idle(User)
    BY <2>1 DEF Idle, Fuse
  <2>3. QED
    BY <1>1, <2>1, <2>2 DEF JoinWorker, CleanExit, Idle, In, authVars
<1>2. CASE Running /\ main' = main
  BY <1>2 DEF Running, CleanExit
<1>3. CASE RunStep /\ ~JoinWorker
  BY <1>3 DEF RunStep, Start, MountAtBoot, ReceiveEvent, MountAfterLogin, EmitLoginCompleted,
     Unmount, JoinSession, StopWorker, CleanExit
<1>4. CASE Signal \/ Killed \/ Restart
  BY <1>4 DEF Signal, Killed, Restart, Boot, CleanExit
<1>5. CASE Wait \/ UNCHANGED vars
  BY <1>5 DEF Wait, CleanExit, Idle, In, vars, authVars, lifeVars
<1>6. QED
  BY <1>1, <1>2, <1>3, <1>4, <1>5 DEF Next, WorkerLoop, UnmountedOutside, SendEvent, lifeVars
-----------------------------------------------------------------------------
LEMMA InvInit == ASSUME Init PROVE Inv
<1>1. AuthTypeOK
  <2>1. dropped \in BOOLEAN
    BY Zenon DEF Init, AuthInit
  <2>2. call \in [Caller -> Call]
    BY DEF Init, AuthInit, Call, IdleCall, None
  <2>3. {mem, pending, store, serial} \subseteq Nat /\ {aged, codes, honoured} \subseteq SUBSET Nat
    BY DEF Init, AuthInit, None
  <2>4. QED
    BY <2>1, <2>2, <2>3, AuthAssumption DEF Init, AuthInit, AuthTypeOK
<1>2. Roles /\ Numbered /\ LoginsApart /\ RefreshOfMemory /\ Saved /\ Usable
  BY DEF Init, AuthInit, IdleCall, None, Caller,
         Roles, Numbered, LoginsApart, RefreshOfMemory, Saved, Usable, Bearer, In
<1>3. LifeTypeOK /\ Quiet /\ CleanExit
  <2>1. stop \in BOOLEAN /\ stale \in BOOLEAN
    BY Zenon DEF Init
  <2>2. events \in 0 .. Capacity
    BY LifecycleAssumption DEF Init
  <2>3. Quiet
    BY LifecycleAssumption DEF Init, AuthInit, Quiet, Idle, Fuse, In, Caller, IdleCall
  <2>4. QED
    BY <2>1, <2>2, <2>3 DEF Init, LifeTypeOK, CleanExit
<1>4. QED
  BY <1>1, <1>2, <1>3 DEF Inv, TypeOK, LifeTypeOK, TokenInv

LEMMA InvKept == ASSUME Inv, [Next]_vars PROVE Inv'
<1>1. TokenInv'
  BY TokenInvKept DEF Inv
<1>2. LifeTypeOK'
  BY LifeTypeKept DEF Inv, TypeOK, LifeTypeOK
<1>3. Quiet' /\ CleanExit'
  BY QuietKept, CleanExitKept DEF Inv, TypeOK, LifeTypeOK
<1>4. QED
  BY <1>1, <1>2, <1>3 DEF Inv, TypeOK, LifeTypeOK, TokenInv

(* The inductive invariant of the daemon: who has which token set.           *)
THEOREM DaemonInvariance == Spec => []Inv
BY InvInit, InvKept, PTL DEF Spec

(* The state is well-typed; the channel never holds more than its capacity.  *)
THEOREM DaemonTypes == Spec => []TypeOK
<1>1. Inv => TypeOK
  BY DEF Inv
<1>2. QED
  BY <1>1, DaemonInvariance, PTL

(* Whatever logins and refreshes overlap, unless an answer was lost, the     *)
(* tokens in memory and in the Secret Service are ones the server takes.      *)
THEOREM TokensStayUsable == Spec => []TokensUsable
<1>1. Inv => TokensUsable
  BY DEF Inv, TokenInv, Roles, Usable, TokensUsable, MutexFree, In
<1>2. QED
  BY <1>1, DaemonInvariance, PTL

(* No thread gives the server a refresh token that another has used.         *)
THEOREM TokensUsedOnce == Spec => []NoTokenReuse
<1>1. Inv => NoTokenReuse
  BY DEF Inv, TokenInv, Roles, RefreshOfMemory, Usable, NoTokenReuse, In
<1>2. QED
  BY <1>1, DaemonInvariance, PTL

(* A daemon that ends in order leaves no operation of the worker half done,  *)
(* and with exit code 0 no request of a FUSE thread either.                   *)
THEOREM OrderlyExit == Spec => []CleanExit
<1>1. Inv => CleanExit
  BY DEF Inv
<1>2. QED
  BY <1>1, DaemonInvariance, PTL

(* No step takes a daemon with credentials to one without.                    *)
THEOREM LoginsLast == Spec => StaysLoggedIn
<1>1. ASSUME Inv, [Next]_vars PROVE mem # None => mem' # None
  <2>1. CASE mem' = mem
    BY <2>1
  <2>2. CASE Restart
    BY <1>1, <2>2 DEF Restart, NewProcess, Inv, TokenInv, Saved
  <2>3. ASSUME NEW h \in Handler, InstallLogin(h) PROVE mem' # None
    BY <1>1, <2>3 DEF InstallLogin, Inv, TokenInv, LoginsApart, Bearer, Numbered, None, In
  <2>4. ASSUME NEW u \in User, SaveRefreshed(u) PROVE mem' # None
    BY <1>1, <2>4 DEF SaveRefreshed, Inv, TokenInv, RefreshOfMemory, Numbered, None, In
  <2>5. QED
    BY <1>1, <2>1, <2>2, <2>3, <2>4 DEF Next, RunStep, Start, MountAtBoot, ReceiveEvent,
       MountAfterLogin, EmitLoginCompleted, Unmount, JoinSession, StopWorker, JoinWorker,
       WorkerLoop, Wait, Signal, Killed, UnmountedOutside, tokenVars, LoginStep, BeginLogin, LoginAges, Callback, CompleteLogin, TakeLogin,
       Exchange, ExchangeFails, RestoreLogin, SaveLogin, SaveLoginFails, TokenStep, NeedToken,
       RefreshToken, RefreshCall, RefreshFails, SaveRefreshedFails, SendEvent, vars, authVars
<1>2. QED
  BY <1>1, DaemonInvariance, PTL DEF Spec, StaysLoggedIn
=============================================================================
