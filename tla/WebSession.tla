----------------------------- MODULE WebSession -----------------------------
(***************************************************************************)
(* A browser of apps/web and its session: requests through fetchWithAuth,  *)
(* each of which refreshes the access token for itself when it is refused, *)
(* the login and registration forms, the auth routes of the gateway with   *)
(* their cookie, and behind them auth-service, which other clients of the  *)
(* same accounts call too.                                                 *)
(***************************************************************************)
EXTENDS AuthService

CONSTANTS
    Request,     \* the requests of the browser that are in flight at once
    NoSession,   \* the store after clearAuth
    NoCall,      \* the gateway made no call
    MaxOthers,   \* bound on the calls of other clients
    OtherOps     \* what other clients ask of auth-service

ASSUME OthersAssumption == MaxOthers \in Nat

VARIABLES
    session,     \* the session in the store and in local storage
    cookie,      \* the refreshToken cookie
    web,         \* web[r]: the progress of fetchWithAuth
    form,        \* the progress of the form on /auth
    others       \* calls of other clients so far

browserVars == <<session, cookie, web, form>>
webVars == <<browserVars, others>>
vars == <<authVars, webVars>>

(* The access token is the user it names: its signature and expiry are the *)
(* choice of the guard that checks it.                                     *)
AuthSession == [user : User, access : User]

(* bearer: the access token that was sent.  user: the session.user that    *)
(* refreshAccessToken captured.  call: the call its refresh led to.        *)
Fetch ==
    [pc : {"idle", "sent", "refreshing", "refreshed", "retrying"},
     bearer : User \cup {NoUser}, user : User \cup {NoUser}, call : Call \cup {NoCall}]

IdleFetch == [pc |-> "idle", bearer |-> NoUser, user |-> NoUser, call |-> NoCall]

Form == [pc : {"idle", "sending", "answered"}, call : Call \cup {NoCall}]

IdleForm == [pc |-> "idle", call |-> NoCall]

(* Every variable has its type.                                            *)
TypeOK ==
    /\ AuthTypeOK
    /\ session \in AuthSession \cup {NoSession}
    /\ cookie \in RefreshToken \cup {NoToken}
    /\ web \in [Request -> Fetch]
    /\ form \in Form
    /\ others \in 0..MaxOthers

Init ==
    /\ AuthInit
    /\ session = NoSession
    /\ cookie = NoToken
    /\ web = [r \in Request |-> IdleFetch]
    /\ form = IdleForm
    /\ others = 0

Unused == {c \in Call : call[c].pc = "new"}

(* One call is kept for each request that may still have to refresh.       *)
Spare == Cardinality(Unused) > Cardinality({r \in Request : web[r].pc = "sent"})

(* Which slot a call or a request takes makes no difference.               *)
NextCall == CHOOSE c \in Unused : TRUE

NextFetch ==
    IF \E r \in Request : web[r].pc = "idle"
    THEN CHOOSE r \in Request : web[r].pc = "idle" ELSE CHOOSE r \in Request : TRUE

SomeEmail == NewCall.email

(* Which address comes first makes no difference either.                   *)
Addresses == IF Unused = Call THEN {SomeEmail} ELSE Email

Done(r) == web' = [web EXCEPT ![r] = IdleFetch]

(* useAuthStore: setAuth and clearAuth.                                    *)
SetAuth(user, access) == session' = [user |-> user, access |-> access]
ClearAuth == session' = NoSession
-----------------------------------------------------------------------------
(* fetchWithAuth sends the request with the token of the store, if any.    *)
Send(r) ==
    /\ r = NextFetch /\ web[r].pc = "idle" /\ Spare
    /\ web' = [web EXCEPT ![r] = [IdleFetch EXCEPT !.pc = "sent", !.bearer =
          IF session = NoSession THEN NoUser ELSE session.access]]
    /\ UNCHANGED <<authVars, session, cookie, form, others>>

(* JwtAuthGuard lets the request pass; any answer but 401 ends it.         *)
Accepted(r) ==
    /\ web[r].pc = "sent" /\ web[r].bearer # NoUser
    /\ Done(r)
    /\ UNCHANGED <<authVars, session, cookie, form, others>>

(* JwtAuthGuard refuses, for want of a token or because it has expired;    *)
(* refreshAccessToken captures the session and posts the cookie.           *)
Refused(r) ==
    /\ web[r].pc = "sent"
    /\ IF session = NoSession
       THEN /\ ClearAuth /\ Done(r)
            /\ UNCHANGED authVars
       ELSE /\ UNCHANGED session
            /\ IF cookie = NoToken
               THEN /\ web' = [web EXCEPT ![r].pc = "refreshing", ![r].user = session.user]
                    /\ UNCHANGED authVars
               ELSE /\ Start(NextCall, "refresh", NoUser, SomeEmail, cookie)
                    /\ web' = [web EXCEPT ![r].pc = "refreshing", ![r].user = session.user,
                                          ![r].call = NextCall]
    /\ UNCHANGED <<cookie, form, others>>

(* The gateway's answer replaces the cookie as soon as it arrives.         *)
RefreshArrives(r) ==
    /\ web[r].pc = "refreshing" /\ web[r].call # NoCall
    /\ call[web[r].call].reply = "ok"
    /\ cookie' = call[web[r].call].token
    /\ web' = [web EXCEPT ![r].pc = "refreshed"]
    /\ UNCHANGED <<authVars, session, form, others>>

(* The script goes on: the new token is stored with the captured user, and *)
(* the request is sent again.                                              *)
Refreshed(r) ==
    /\ web[r].pc = "refreshed"
    /\ SetAuth(web[r].user, call[web[r].call].token.sub)
    /\ web' = [web EXCEPT ![r].pc = "retrying"]
    /\ UNCHANGED <<authVars, cookie, form, others>>

(* Mutant: a refused refresh is tried again.                               *)
RefreshDeniedRetries(r) ==
    /\ web[r].pc = "refreshing"
    /\ \/ web[r].call = NoCall
       \/ web[r].call # NoCall /\ call[web[r].call].reply \notin {"none", "ok"}
    /\ UNCHANGED <<authVars, session, cookie, form, web, others>>

(* Any other answer, the gateway's own 401 without a cookie included.      *)
RefreshDenied(r) ==
    /\ web[r].pc = "refreshing"
    /\ \/ web[r].call = NoCall
       \/ web[r].call # NoCall /\ call[web[r].call].reply \notin {"none", "ok"}
    /\ ClearAuth
    /\ Done(r)
    /\ UNCHANGED <<authVars, cookie, form, others>>

(* fetch or response.json rejects: the catch clears the session, and what  *)
(* auth-service does with the call is not affected.                        *)
RefreshFails(r) ==
    /\ web[r].pc \in {"refreshing", "refreshed"}
    /\ ClearAuth
    /\ Done(r)
    /\ Fault
    /\ UNCHANGED <<accounts, call, loggedOut, cookie, form, others>>

(* The second attempt, whose 401 is final.                                 *)
Retried(r) ==
    /\ web[r].pc = "retrying"
    /\ ClearAuth \/ UNCHANGED session
    /\ Done(r)
    /\ UNCHANGED <<authVars, cookie, form, others>>
-----------------------------------------------------------------------------
(* The route /auth shows the forms only without a session, and a form is   *)
(* disabled while it is submitting.  That nobody signs in while a refresh  *)
(* is in flight is assumed of the user.                                    *)
MaySubmit ==
    /\ form.pc = "idle" /\ session = NoSession /\ Spare
    /\ \A r \in Request : web[r].pc \notin {"refreshing", "refreshed"}

SubmitLogin(e) ==
    /\ MaySubmit
    /\ Start(NextCall, "login", NoUser, e, NoToken)
    /\ form' = [pc |-> "sending", call |-> NextCall]
    /\ UNCHANGED <<session, cookie, web, others>>

SubmitRegister(e) ==
    /\ MaySubmit
    /\ Start(NextCall, "register", NoUser, e, NoToken)
    /\ form' = [pc |-> "sending", call |-> NextCall]
    /\ UNCHANGED <<session, cookie, web, others>>

(* AuthController.register and login set the cookie on success.            *)
FormAnswered ==
    /\ form.pc = "sending" /\ call[form.call].reply = "ok"
    /\ form' = [form EXCEPT !.pc = "answered"]
    /\ cookie' = call[form.call].token
    /\ UNCHANGED <<authVars, session, web, others>>

(* Any other answer is shown as an error.                                  *)
FormRefused ==
    /\ form.pc = "sending" /\ call[form.call].reply \notin {"none", "ok"}
    /\ form' = IdleForm
    /\ UNCHANGED <<authVars, session, cookie, web, others>>

(* login and register store the session of the answer.                     *)
FormStores ==
    /\ form.pc = "answered"
    /\ SetAuth(call[form.call].token.sub, call[form.call].token.sub)
    /\ form' = IdleForm
    /\ UNCHANGED <<authVars, cookie, web, others>>

(* The page is loaded again: its scripts are gone, the session is restored *)
(* from local storage.                                                     *)
Reload ==
    /\ Fault
    /\ web' = [r \in Request |-> IdleFetch]
    /\ form' = IdleForm
    /\ UNCHANGED <<accounts, call, loggedOut, session, cookie, others>>

(* Other devices and services: a login, the logout of a token they hold,   *)
(* or an operation of UsersController.                                     *)
OtherClient(op) ==
    /\ Spare
    /\ others < MaxOthers /\ others' = others + 1
    /\ \/ /\ op \in {"login", "create"}
          /\ \E e \in Addresses : Start(NextCall, op, NoUser, e, NoToken)
       \/ /\ op = "logout"
          /\ \E d \in Call :
                 /\ call[d].reply = "ok" /\ call[d].token # NoToken
                 /\ Start(NextCall, op, NoUser, SomeEmail, call[d].token)
       \/ /\ op = "update"
          /\ \E u \in Stored, e \in Email : Start(NextCall, op, u, e, NoToken)
       \/ /\ op = "remove"
          /\ \E u \in User : Start(NextCall, op, u, SomeEmail, NoToken)
    /\ UNCHANGED browserVars

WebStep(r) ==
    \/ Accepted(r)
    \/ Refused(r)
    \/ RefreshArrives(r)
    \/ Refreshed(r)
    \/ RefreshDenied(r)
    \/ Retried(r)

Next ==
    \/ AuthNext /\ UNCHANGED webVars
    \/ \E r \in Request : Send(r) \/ WebStep(r) \/ RefreshFails(r)
    \/ \E e \in Addresses : SubmitLogin(e) \/ SubmitRegister(e)
    \/ FormAnswered
    \/ FormRefused
    \/ FormStores
    \/ Reload
    \/ \E op \in OtherOps : OtherClient(op)

(* Handlers run to their end, answers arrive and scripts go on.  One       *)
(* condition for all handlers is enough: their steps are finitely many.    *)
Fairness ==
    /\ WF_vars((\E c \in Call : Handle(c)) /\ UNCHANGED webVars)
    /\ \A r \in Request : WF_vars(WebStep(r))

Spec == Init /\ [][Next]_vars /\ Fairness
-----------------------------------------------------------------------------
(* A browser that shows a session can renew it: the user it shows, the     *)
(* subject of its token and the subject of its cookie are one, and         *)
(* auth-service holds a hash the cookie matches, unless that user was      *)
(* logged out or removed.  Concurrent refreshes, each with a cookie of its *)
(* own, lost answers and reloads must not break it (apiClient.ts:37).      *)
SessionRenewable ==
    session # NoSession =>
        LET u == session.user
        IN  /\ session.access = u
            /\ cookie # NoToken
            /\ cookie.sub = u
            /\ Exists(u) /\ u \notin loggedOut =>
                   accounts[u].hash # NoToken /\ Matches(cookie, accounts[u].hash)

(* A request that was refused refreshes once and ends, whatever the answer *)
(* to the refresh and to the second attempt (apiClient.ts:80-117).         *)
RequestsEnd == \A r \in Request : web[r].pc # "idle" ~> web[r].pc = "idle"
=============================================================================
