---------------------------- MODULE SessionClient ----------------------------
(***************************************************************************)
(* The browser's side of a session, on top of RefreshTokens:               *)
(*   frontend/src/api/client.ts, api/auth.ts, contexts/AuthContext.tsx,    *)
(*   utils/storage.ts                                                      *)
(*                                                                         *)
(* Tabs of one browser share the refresh token in localStorage and nothing *)
(* else. A tab makes calls: requests of its pages, login, logout, and the  *)
(* refresh that AuthContext starts when the page is mounted. A step is what *)
(* JavaScript runs without giving up control, or one step of the server.   *)
(* A call that gets a 401 turns into an exchange of the stored refresh     *)
(* token, into a waiter on the exchange under way, or fails.               *)
(* A request that carries no access token is answered 422, which the       *)
(* client only rejects: calls without one are left out.                    *)
(***************************************************************************)
EXTENDS Naturals, RefreshTokens

CONSTANTS
  Tabs,        \* tabs of the browser
  Calls,       \* bound: calls that may be in flight together, in any of the tabs
  MaxExpiries, \* bound: calls that find their access token expired
  Draw(_)      \* which of the tokens that nobody knows may be drawn: all, or one

ASSUME ExpiriesAssumption == MaxExpiries \in Nat
ASSUME TabsAssumption == None \notin Tabs
ASSUME DrawAssumption ==
  \A S \in SUBSET Tokens : Draw(S) \subseteq S /\ (S # {} => Draw(S) # {})

VARIABLES
  stored,        \* localStorage: the refresh token the tabs share
  accessToken,   \* whether each tab has an access token
  isRefreshing,  \* isRefreshing of each tab
  page,          \* the page of each tab
  call,          \* the calls
  expiries,      \* calls that found their access token expired, so far
  doubt          \* history: the stored token expired, or a page that presented it is gone

clientVars == <<stored, accessToken, isRefreshing, page, call, expiries, doubt>>
vars == <<live, clientVars>>

Kind == {"none", "request", "login", "logout", "mount",
         "orphan"}  \* its page is gone, the server is still at it
Page == {"loading", "open"}  \* loading: AuthContext is not mounted yet
Waiting == {"sent", "exchange", "checked"}                \* for the server
Answered == {"ok", "unauthorized", "granted", "refused"}  \* for the tab
Phase == {"idle", "queued"} \cup Waiting \cup Answered

Call == [tab   : Tabs \cup {None},
         kind  : Kind,
         phase : Phase,
         retry : BOOLEAN,             \* _retry
         body  : Tokens \cup {None},  \* the refresh token it presents
         old   : Tokens \cup {None},  \* ... in the exchange it leads
         new   : Tokens \cup {None}]  \* the token it was answered

NewCall(p, kind, phase) ==
  [tab |-> p, kind |-> kind, phase |-> phase, retry |-> FALSE,
   body |-> None, old |-> None, new |-> None]

Idle == NewCall(None, "none", "idle")

\* Tokens that somebody knows.
Held ==
  {stored} \cup UNION {{call[c].body, call[c].old, call[c].new} : c \in Calls}
FreshTokens == Draw(Tokens \ Held)

CallsOf(p) == {c \in Calls : call[c].tab = p}

Init ==
  /\ live = {}
  /\ stored = None
  /\ accessToken = [p \in Tabs |-> FALSE]
  /\ isRefreshing = [p \in Tabs |-> FALSE]
  /\ page = [p \in Tabs |-> "loading"]
  /\ call = [c \in Calls |-> Idle]
  /\ expiries = 0
  /\ doubt = FALSE

SetStored(t) == stored' = t /\ doubt' = FALSE
SetAccess(p, b) == accessToken' = [accessToken EXCEPT ![p] = b]
SetCall(c, r) == call' = [call EXCEPT ![c] = r]

\* clearAuth, and the tail of the interceptor's catch.
ClearAuth(p) == SetAccess(p, FALSE) /\ SetStored(None)

\* A call settles with an error: logout() clears the session all the same.
Rejected(c) ==
  IF call[c].kind = "logout" THEN ClearAuth(call[c].tab) ELSE UNCHANGED <<stored, accessToken, doubt>>

(***************************************************************************)
(* The tab starts something.                                               *)
(***************************************************************************)
\* refreshAuth of the page just mounted.
Mount(c, p) ==
  /\ page[p] = "loading"
  /\ call[c] = Idle
  /\ page' = [page EXCEPT ![p] = "open"]
  /\ IF stored = None
       THEN UNCHANGED call
       ELSE SetCall(c, [NewCall(p, "mount", "exchange") EXCEPT !.old = stored])
  /\ UNCHANGED <<live, expiries, stored, accessToken, isRefreshing, doubt>>

Start(c, p) ==
  /\ page[p] = "open"
  /\ call[c] = Idle
  /\ \/ /\ accessToken[p]
        /\ \/ SetCall(c, NewCall(p, "request", "sent"))
           \/ SetCall(c, [NewCall(p, "logout", "sent") EXCEPT !.body = stored])
     \/ /\ \A d \in CallsOf(p) : call[d].kind # "login"
        /\ SetCall(c, NewCall(p, "login", "sent"))
  /\ UNCHANGED <<live, expiries, stored, accessToken, isRefreshing, page, doubt>>

(***************************************************************************)
(* The server answers. Nobody is there for the answer to an orphan: what   *)
(* matters of it is the token it presents, which it may revoke.            *)
(***************************************************************************)
Answer(c, phase, t) ==
  SetCall(c, IF call[c].kind = "orphan" THEN Idle ELSE [call[c] EXCEPT !.phase = phase, !.new = t])

ServeAuthorized(c) ==
  /\ call[c].phase = "sent"
  /\ call[c].kind # "login"
  /\ Revoke(call[c].body)
  /\ Answer(c, "ok", None)
  /\ UNCHANGED <<expiries, stored, accessToken, isRefreshing, page, doubt>>

ServeLogin(c) ==
  /\ call[c].phase = "sent"
  /\ call[c].kind = "login"
  /\ \E t \in FreshTokens :
       /\ Issue(t, Held)
       /\ Answer(c, "ok", t)
  /\ UNCHANGED <<expiries, stored, accessToken, isRefreshing, page, doubt>>

\* 401: a wrong password, or an access token that has expired. Tokens expire
\* unseen by the client, so any call may find that its own has.
ServeUnauthorized(c) ==
  /\ call[c].phase = "sent"
  /\ \/ call[c].kind = "login" /\ UNCHANGED expiries
     \/ call[c].kind # "login" /\ expiries < MaxExpiries /\ expiries' = expiries + 1
  /\ Answer(c, "unauthorized", None)
  /\ UNCHANGED <<live, stored, accessToken, isRefreshing, page, doubt>>

RefreshLookup(c) ==
  /\ call[c].phase = "exchange"
  /\ IF IsValid(call[c].old)
       THEN SetCall(c, [call[c] EXCEPT !.phase = "checked"])
       ELSE Answer(c, "refused", None)
  /\ UNCHANGED <<live, expiries, stored, accessToken, isRefreshing, page, doubt>>

RefreshCommit(c) ==
  /\ call[c].phase = "checked"
  /\ \E t \in FreshTokens :
       /\ Rotate(call[c].old, t, Held)
       /\ Answer(c, "granted", t)
  /\ UNCHANGED <<expiries, stored, accessToken, isRefreshing, page, doubt>>

\* The connection breaks, before the server sees the request or on its answer.
Lose(c) ==
  /\ call[c].tab # None
  /\ \/ /\ call[c].phase \in {"sent", "ok"}
        /\ Rejected(c)
        /\ SetCall(c, Idle)
     \/ /\ call[c].phase \in {"exchange", "granted"}
        /\ Answer(c, "refused", None)
        /\ UNCHANGED <<stored, accessToken, doubt>>
  /\ UNCHANGED <<live, expiries, isRefreshing, page>>

(***************************************************************************)
(* The tab handles an answer.                                              *)
(***************************************************************************)
HandleOk(c) ==
  /\ call[c].phase = "ok"
  /\ CASE call[c].kind = "login"  -> SetAccess(call[c].tab, TRUE) /\ SetStored(call[c].new)
       [] call[c].kind = "logout" -> ClearAuth(call[c].tab)
       [] OTHER                   -> UNCHANGED <<stored, accessToken, doubt>>
  /\ SetCall(c, Idle)
  /\ UNCHANGED <<live, expiries, isRefreshing, page>>

\* A 401 of a call that was already retried.
HandleFailed(c) ==
  /\ call[c].phase = "unauthorized" /\ call[c].retry
  /\ Rejected(c)
  /\ SetCall(c, Idle)
  /\ UNCHANGED <<live, expiries, isRefreshing, page>>

\* failedQueue.push
HandleQueue(c) ==
  /\ call[c].phase = "unauthorized" /\ ~ call[c].retry
  /\ isRefreshing[call[c].tab]
  /\ SetCall(c, [call[c] EXCEPT !.phase = "queued"])
  /\ UNCHANGED <<live, expiries, stored, accessToken, isRefreshing, page, doubt>>

\* Nothing to exchange: back to the login page.
HandleNoToken(c) ==
  /\ call[c].phase = "unauthorized" /\ ~ call[c].retry
  /\ ~ isRefreshing[call[c].tab]
  /\ stored = None
  /\ Rejected(c)
  /\ SetCall(c, Idle)
  /\ UNCHANGED <<live, expiries, isRefreshing, page>>

\* A plausible bug: no look at whether there is a token to exchange.
HandleExchange_NoTokenCheck(c) ==
  /\ call[c].phase = "unauthorized" /\ ~ call[c].retry
  /\ ~ isRefreshing[call[c].tab]
  /\ isRefreshing' = [isRefreshing EXCEPT ![call[c].tab] = TRUE]
  /\ SetCall(c, [call[c] EXCEPT !.phase = "exchange", !.retry = TRUE, !.old = stored])
  /\ UNCHANGED <<live, expiries, stored, accessToken, page, doubt>>

HandleExchange(c) ==
  /\ call[c].phase = "unauthorized" /\ ~ call[c].retry
  /\ ~ isRefreshing[call[c].tab]
  /\ stored # None
  /\ isRefreshing' = [isRefreshing EXCEPT ![call[c].tab] = TRUE]
  /\ SetCall(c, [call[c] EXCEPT !.phase = "exchange", !.retry = TRUE, !.old = stored])
  /\ UNCHANGED <<live, expiries, stored, accessToken, page, doubt>>

Resend(r) == [r EXCEPT !.phase = "sent", !.old = None, !.new = None]

\* processQueue: what becomes of every call that waits on the exchange c leads.
Woken(c, error) ==
  [d \in Calls |->
     IF d \in CallsOf(call[c].tab) /\ call[d].phase = "queued"
     THEN IF error THEN Idle ELSE Resend(call[d])
     ELSE call[d]]

\* A plausible bug: the interceptor keeps the new access token only.
HandleGranted_NotStored(c) ==
  LET p == call[c].tab
      t == call[c].new
  IN
  /\ call[c].phase = "granted"
  /\ SetAccess(p, TRUE)
  /\ IF call[c].kind = "mount"
       THEN SetCall(c, Idle) /\ UNCHANGED isRefreshing /\ SetStored(t)
       ELSE /\ call' = [Woken(c, FALSE) EXCEPT ![c] = Resend(call[c])]
            /\ isRefreshing' = [isRefreshing EXCEPT ![p] = FALSE]
            /\ UNCHANGED <<stored, doubt>>
  /\ UNCHANGED <<live, expiries, page>>

HandleGranted(c) ==
  LET p == call[c].tab
      t == call[c].new
  IN
  /\ call[c].phase = "granted"
  /\ SetAccess(p, TRUE)
  /\ SetStored(t)
  /\ IF call[c].kind = "mount"
       THEN SetCall(c, Idle) /\ UNCHANGED isRefreshing
       ELSE /\ call' = [Woken(c, FALSE) EXCEPT ![c] = Resend(call[c])]
            /\ isRefreshing' = [isRefreshing EXCEPT ![p] = FALSE]
  /\ UNCHANGED <<live, expiries, page>>

\* A plausible bug: the waiters are woken only by a success.
HandleRefused_QueueForgotten(c) ==
  LET p == call[c].tab IN
  /\ call[c].phase = "refused"
  /\ ClearAuth(p)
  /\ SetCall(c, Idle)
  /\ IF call[c].kind = "mount"
       THEN UNCHANGED isRefreshing
       ELSE isRefreshing' = [isRefreshing EXCEPT ![p] = FALSE]
  /\ UNCHANGED <<live, expiries, page>>

\* A plausible bug: isRefreshing is reset only by a success.
HandleRefused_StillRefreshing(c) ==
  LET p == call[c].tab IN
  /\ call[c].phase = "refused"
  /\ ClearAuth(p)
  /\ IF call[c].kind = "mount"
       THEN SetCall(c, Idle) /\ UNCHANGED isRefreshing
       ELSE /\ call' = [Woken(c, TRUE) EXCEPT ![c] = Idle]
            /\ UNCHANGED isRefreshing
  /\ UNCHANGED <<live, expiries, page>>

HandleRefused(c) ==
  LET p == call[c].tab IN
  /\ call[c].phase = "refused"
  /\ ClearAuth(p)
  /\ IF call[c].kind = "mount"
       THEN SetCall(c, Idle) /\ UNCHANGED isRefreshing
       ELSE /\ call' = [Woken(c, TRUE) EXCEPT ![c] = Idle]
            /\ isRefreshing' = [isRefreshing EXCEPT ![p] = FALSE]
  /\ UNCHANGED <<live, expiries, page>>

(***************************************************************************)
(* The page goes, because it was told to or because the user reloads it:   *)
(* answers are lost, the server goes on with what it is doing.             *)
(***************************************************************************)
Orphaned(r) ==
  IF r.phase \in Waiting
    THEN [NewCall(None, "orphan", r.phase) EXCEPT
            !.body = IF r.phase = "sent" THEN r.body ELSE None,
            !.old = r.old]
    ELSE Idle

Reload(p) ==
  /\ page[p] # "loading"
  /\ page' = [page EXCEPT ![p] = "loading"]
  /\ accessToken' = [accessToken EXCEPT ![p] = FALSE]
  /\ isRefreshing' = [isRefreshing EXCEPT ![p] = FALSE]
  /\ call' = [c \in Calls |-> IF c \in CallsOf(p) THEN Orphaned(call[c]) ELSE call[c]]
  /\ doubt' = (doubt \/ \E c \in CallsOf(p) : stored # None /\ stored \in {call[c].body, call[c].old})
  /\ UNCHANGED <<live, expiries, stored>>

ServerStep(c) ==
  \/ ServeAuthorized(c) \/ ServeLogin(c) \/ ServeUnauthorized(c)
  \/ RefreshLookup(c) \/ RefreshCommit(c)

HandleStep(c) ==
  \/ HandleOk(c) \/ HandleFailed(c)
  \/ HandleQueue(c) \/ HandleNoToken(c) \/ HandleExchange(c)
  \/ HandleGranted(c) \/ HandleRefused(c)

\* Days pass: no call takes so long.
StoredExpires ==
  /\ PassDue(stored)
  /\ doubt' = TRUE
  /\ UNCHANGED <<stored, accessToken, isRefreshing, page, call, expiries>>

Next ==
  \/ \E c \in Calls : (\E p \in Tabs : Mount(c, p) \/ Start(c, p)) \/ ServerStep(c) \/ HandleStep(c) \/ Lose(c)
  \/ \E p \in Tabs : Reload(p)
  \/ StoredExpires

\* The server answers, and the event loop of a tab gets to every answer.
Fairness == \A c \in Calls : WF_vars(ServerStep(c) \/ HandleStep(c))

Spec == Init /\ [][Next]_vars /\ Fairness

(***************************************************************************)
(* Properties.                                                             *)
(***************************************************************************)
\* Tables, tabs and calls have their types; a refresh always presents a token.
TypeOK ==
  /\ live \in SUBSET Tokens
  /\ expiries \in 0 .. MaxExpiries
  /\ stored \in Tokens \cup {None}
  /\ accessToken \in [Tabs -> BOOLEAN]
  /\ isRefreshing \in [Tabs -> BOOLEAN]
  /\ page \in [Tabs -> Page]
  /\ call \in [Calls -> Call]
  /\ \A c \in Calls : call[c].phase \in {"exchange", "checked", "granted"} => call[c].old # None
  /\ doubt \in BOOLEAN

Leads(c) == call[c].phase \in {"exchange", "checked", "granted", "refused"} /\ call[c].kind # "mount"
LeadersOf(p) == {c \in CallsOf(p) : Leads(c)}

\* isRefreshing says that exactly one call of the tab leads an exchange, and
\* while it does not, nobody waits in failedQueue: no caller is stranded, and a
\* tab never presents the stored token twice at once through the interceptor.
RefreshIsLed ==
  \A p \in Tabs :
    /\ isRefreshing[p] <=> LeadersOf(p) # {}
    /\ \A c, d \in LeadersOf(p) : c = d
    /\ (\E c \in CallsOf(p) : call[c].phase = "queued") => isRefreshing[p]

\* The answer to c, on its way, will replace or remove the stored token.
Supersedes(c) ==
  \/ call[c].phase \in {"granted", "refused"} /\ call[c].old = stored
  \/ call[c].phase = "ok" /\ call[c].kind = "logout" /\ call[c].body = stored

\* Whatever the tabs do to each other, the browser does not keep a refresh token
\* that the server has revoked, except between the server's commit and the
\* answer, or when the page that presented the token went away before it.
StoredIsUsable ==
  \/ stored = None
  \/ IsValid(stored)
  \/ doubt
  \/ \E c \in Calls : Supersedes(c)

\* Every call comes to an end: it is answered, rejected or dropped.
CallsSettle == \A c \in Calls : call[c].phase # "idle" ~> call[c].phase = "idle"
=============================================================================
