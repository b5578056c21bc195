----------------------------- MODULE AuthManager -----------------------------
(****************************************************************************)
(* src/src/auth.rs: the OAuth state behind one Mutex, and who works on it:  *)
(* D-Bus callers beginning a login, HTTP handlers completing one, and the   *)
(* threads whose requests need a token (send_authorized_request).           *)
(*                                                                          *)
(* complete_login lets go of the mutex between its steps.  access_token and *)
(* refresh_access_token keep it through the network call and the save: their *)
(* caller is then the holder.  Token sets and logins are numbers of one     *)
(* counter; the access token of a set and the expiry time are left out, so  *)
(* that a thread may find its token expired or rejected whenever it asks.    *)
(****************************************************************************)
EXTENDS Integers, FiniteSets

CONSTANTS Handler,   \* the HTTP requests that the callback server handles
          User,      \* the threads that call the cloud API
          Limits     \* how many of each event a behaviour may contain

Limit == [login : Nat, refresh : Nat, trouble : Nat]

ASSUME AuthAssumption == Limits \subseteq Limit /\ Handler \cap User = {}

None == 0

VARIABLES mem,      \* AuthState.credentials: a token set, or None
          pending,  \* AuthState.pending_login: a login, or None
          store,    \* the item in the Secret Service: a token set, or None
          holder,   \* who keeps the mutex over several steps
          call,     \* the call that each handler and user is in
          aged,     \* the logins that are older than PENDING_LOGIN_TTL
          serial,   \* the last login or token set handed out
          codes,    \* the logins whose authorization code the server takes
          honoured, \* the token sets whose refresh token the server takes
          dropped,  \* history: the server's answer was never saved
          allow     \* the events that are left

authVars == <<mem, pending, store, holder, call, aged, serial, codes, honoured, dropped, allow>>

Caller == Handler \cup User

(* The local variables of a call: the code it was given, the pending login  *)
(* it has taken and the token set it works on.                               *)
Call == [pc : {"idle", "take", "exchange", "restore", "save", "install", "send",
               "refresh", "resave"},
         code : Nat, login : Nat, token : Nat]

IdleCall == [pc |-> "idle", code |-> None, login |-> None, token |-> None]

AuthTypeOK ==
    /\ {mem, pending, store, serial} \subseteq Nat
    /\ holder \subseteq User
    /\ call \in [Caller -> Call]
    /\ {aged, codes, honoured} \subseteq SUBSET Nat
    /\ dropped \in BOOLEAN
    /\ allow \in Limit

AuthInit ==
    /\ store \in {None, 1}
    /\ mem = store
    /\ pending = None
    /\ holder = {}
    /\ call = [c \in Caller |-> IdleCall]
    /\ aged = {} /\ codes = {}
    /\ serial = 1
    /\ honoured = {1}
    /\ dropped = FALSE
    /\ allow \in Limits

In(c, step) == call[c].pc = step
Leave(c) == call' = [call EXCEPT ![c] = IdleCall]
MutexFree == holder = {}

Use(kind) == /\ allow[kind] > 0
             /\ allow' = [allow EXCEPT ![kind] = @ - 1]
-----------------------------------------------------------------------------
(* begin_login; from then on the user may authorize that login.  A call that *)
(* is rejected (LoginAlreadyPending) changes nothing.                        *)
BeginLogin ==
    /\ MutexFree
    /\ pending = None \/ pending \in aged
    /\ Use("login")
    /\ pending' = serial + 1
    /\ serial' = serial + 1
    /\ codes' = codes \cup {serial + 1}
    /\ UNCHANGED <<mem, store, holder, call, aged, honoured, dropped>>

(* Ten minutes go by.                                                        *)
LoginAges ==
    /\ pending # None /\ aged' = aged \cup {pending}
    /\ UNCHANGED <<mem, pending, store, holder, call, serial, codes, honoured, dropped, allow>>

(* handle_oauth_callback: the browser brings the code of some login, which  *)
(* need not be the pending one.  Without a code, or with an error, or with a *)
(* code that was used before, nothing comes of it.                            *)
Callback(h) ==
    /\ In(h, "idle")
    /\ \E v \in codes :
          call' = [call EXCEPT ![h] = [IdleCall EXCEPT !.pc = "take", !.code = v]]
    /\ UNCHANGED <<mem, pending, store, holder, aged, serial, codes, honoured, dropped, allow>>

(* complete_login: take the pending login, however old, or NoPendingLogin.   *)
TakeLogin(h) ==
    /\ In(h, "take") /\ MutexFree
    /\ IF pending = None THEN Leave(h)
       ELSE call' = [call EXCEPT ![h].pc = "exchange", ![h].login = pending]
    /\ pending' = None
    /\ UNCHANGED <<mem, store, holder, aged, serial, codes, honoured, dropped, allow>>

\* Faulty: the tokens are in memory before they are saved.
ExchangeInstalling(h) ==
    /\ In(h, "exchange") /\ call[h].code = call[h].login /\ call[h].code \in codes
    /\ call' = [call EXCEPT ![h].pc = "save", ![h].token = serial + 1]
    /\ serial' = serial + 1
    /\ honoured' = honoured \cup {serial + 1}
    /\ codes' = codes \ {call[h].code}
    /\ mem' = serial + 1
    /\ UNCHANGED <<pending, store, holder, aged, dropped, allow>>

(* exchange_authorization_code: the code has to be the one that was issued  *)
(* for the verifier it comes with, and is good for one use.                   *)
Exchange(h) ==
    /\ In(h, "exchange")
    /\ IF call[h].code = call[h].login /\ call[h].code \in codes
       THEN /\ call' = [call EXCEPT ![h].pc = "save", ![h].token = serial + 1]
            /\ serial' = serial + 1
            /\ honoured' = honoured \cup {serial + 1}
            /\ codes' = codes \ {call[h].code}
       ELSE /\ call' = [call EXCEPT ![h].pc = "restore"]
            /\ UNCHANGED <<serial, honoured, codes>>
    /\ UNCHANGED <<mem, pending, store, holder, aged, dropped, allow>>

ExchangeFails(h) ==
    /\ In(h, "exchange") /\ Use("trouble")
    /\ call' = [call EXCEPT ![h].pc = "restore"]
    /\ UNCHANGED <<mem, pending, store, holder, aged, serial, codes, honoured, dropped>>

(* The error path puts the login back, over whatever is pending by then.      *)
RestoreLogin(h) ==
    /\ In(h, "restore") /\ MutexFree
    /\ pending' = call[h].login
    /\ Leave(h)
    /\ UNCHANGED <<mem, store, holder, aged, serial, codes, honoured, dropped, allow>>

(* save_credentials without the mutex; an error drops login and tokens.       *)
SaveLogin(h) ==
    /\ In(h, "save")
    /\ store' = call[h].token
    /\ call' = [call EXCEPT ![h].pc = "install"]
    /\ UNCHANGED <<mem, pending, holder, aged, serial, codes, honoured, dropped, allow>>

SaveLoginFails(h) ==
    /\ In(h, "save") /\ Use("trouble")
    /\ Leave(h)
    /\ UNCHANGED <<mem, pending, store, holder, aged, serial, codes, honoured, dropped>>

InstallLogin(h) ==
    /\ In(h, "install") /\ MutexFree
    /\ mem' = call[h].token
    /\ call' = [call EXCEPT ![h].pc = "send"]
    /\ UNCHANGED <<pending, store, holder, aged, serial, codes, honoured, dropped, allow>>

CompleteLogin(h) ==
    \/ TakeLogin(h) \/ Exchange(h) \/ RestoreLogin(h) \/ SaveLogin(h) \/ InstallLogin(h)
-----------------------------------------------------------------------------
\* Faulty: the mutex is let go before the network call.
NeedTokenUnlocked(u) ==
    /\ In(u, "idle") /\ MutexFree /\ mem # None /\ Use("refresh")
    /\ call' = [call EXCEPT ![u].pc = "refresh", ![u].token = mem]
    /\ UNCHANGED <<mem, pending, store, holder, aged, serial, codes, honoured, dropped>>

(* access_token with a set that is_expired, or refresh_access_token after   *)
(* the API has answered 401.  Without credentials both fail at once.          *)
NeedToken(u) ==
    /\ In(u, "idle") /\ MutexFree /\ mem # None /\ Use("refresh")
    /\ holder' = {u}
    /\ call' = [call EXCEPT ![u].pc = "refresh", ![u].token = mem]
    /\ UNCHANGED <<mem, pending, store, aged, serial, codes, honoured, dropped>>

(* The server replaces the refresh token it is given by a new one.            *)
RefreshCall(u) ==
    /\ In(u, "refresh")
    /\ IF call[u].token \in honoured
       THEN /\ call' = [call EXCEPT ![u].pc = "resave", ![u].token = serial + 1]
            /\ honoured' = (honoured \ {call[u].token}) \cup {serial + 1}
            /\ serial' = serial + 1
            /\ UNCHANGED holder
       ELSE /\ Leave(u) /\ holder' = {}
            /\ UNCHANGED <<honoured, serial>>
    /\ UNCHANGED <<mem, pending, store, aged, codes, dropped, allow>>

(* No answer: the server may or may not have replaced the token.              *)
RefreshFails(u) ==
    /\ In(u, "refresh") /\ Use("trouble")
    /\ \/ UNCHANGED <<honoured, dropped>>
       \/ honoured' = honoured \ {call[u].token} /\ dropped' = TRUE
    /\ holder' = {} /\ Leave(u)
    /\ UNCHANGED <<mem, pending, store, aged, serial, codes>>

\* Faulty: the new set is saved, and memory keeps the old one.
SaveRefreshedOnly(u) ==
    /\ In(u, "resave")
    /\ store' = call[u].token
    /\ holder' = {} /\ Leave(u)
    /\ UNCHANGED <<mem, pending, aged, serial, codes, honoured, dropped, allow>>

(* save_credentials, then the set goes to memory; nobody sees the store and  *)
(* the memory in between but complete_login, which reads neither.             *)
SaveRefreshed(u) ==
    /\ In(u, "resave")
    /\ store' = call[u].token /\ mem' = call[u].token
    /\ holder' = {} /\ Leave(u)
    /\ UNCHANGED <<pending, aged, serial, codes, honoured, dropped, allow>>

SaveRefreshedFails(u) ==
    /\ In(u, "resave") /\ Use("trouble")
    /\ dropped' = TRUE
    /\ holder' = {} /\ Leave(u)
    /\ UNCHANGED <<mem, pending, store, aged, serial, codes, honoured>>

RefreshToken(u) == RefreshCall(u) \/ SaveRefreshed(u)
-----------------------------------------------------------------------------
(* The process ends, and another one starts with what is in the store        *)
(* (AuthManager::new).                                                        *)
NewProcess ==
    /\ mem' = store
    /\ pending' = None
    /\ holder' = {}
    /\ call' = [c \in Caller |-> IdleCall]
    /\ dropped' = (dropped \/ \E u \in User : In(u, "resave"))
=============================================================================
