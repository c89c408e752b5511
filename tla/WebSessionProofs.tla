--------------------------- MODULE WebSessionProofs ---------------------------
(***************************************************************************)
(* TLAPS proofs about WebSession: whatever the number of requests, of      *)
(* other clients and of failures, the browser's session, its cookie and    *)
(* the hash in the users table stay together.                              *)
(***************************************************************************)
EXTENDS WebSession, AuthServiceProofs

-----------------------------------------------------------------------------
(* The inductive invariant.                                                *)

WebTypes ==
    /\ session \in AuthSession \cup {NoSession}
    /\ cookie \in RefreshToken \cup {NoToken}
    /\ web \in [Request -> Fetch]
    /\ form \in Form
    /\ others \in 0..MaxOthers

(* The cookie is a token some call was answered with.                      *)
CookieIssued == cookie # NoToken => \E c \in Call : Signed(c) /\ call[c].token = cookie

(* Session and cookie are of one user.                                     *)
SessionOwned ==
    session # NoSession =>
        session.access = session.user /\ cookie # NoToken /\ cookie.sub = session.user

(* While a refresh is in flight nobody signs in, so the cookie stays with  *)
(* the user the refresh captured, and so does the token it brings.         *)
FetchInOrder(r) ==
    LET c == web[r].call
    IN  /\ web[r].pc \in {"refreshing", "refreshed"} =>
              /\ form.pc = "idle" /\ web[r].user \in User
              /\ cookie # NoToken /\ cookie.sub = web[r].user
        /\ web[r].pc = "refreshing" /\ c # NoCall => RefreshOf(c, web[r].user)
        /\ web[r].pc = "refreshed" =>
              c \in Call /\ Signed(c) /\ call[c].token.sub = web[r].user

(* A form is up only without a session, and waits for a call of its own.   *)
FormInOrder ==
    /\ form.pc # "idle" =>
          /\ session = NoSession /\ form.call \in Call
          /\ call[form.call].pc # "new" /\ call[form.call].op \in {"login", "register"}
    /\ form.pc = "answered" =>
          Signed(form.call) /\ cookie = call[form.call].token /\ cookie # NoToken

WebInv ==
    /\ AuthInv
    /\ WebTypes
    /\ CookieIssued
    /\ SessionOwned
    /\ \A r \in Request : FetchInOrder(r)
    /\ FormInOrder

-----------------------------------------------------------------------------
(* The initial states.                                                     *)
LEMMA WebInitInv == Init => WebInv
<1> SUFFICES ASSUME Init PROVE WebInv
    OBVIOUS
<1>1. AuthInv
    BY AuthInitInv DEF Init
<1>2. WebTypes
    BY OthersAssumption
    DEF Init, WebTypes, IdleFetch, Fetch, IdleForm, Form
<1>3. CookieIssued /\ SessionOwned /\ FormInOrder /\ \A r \in Request : FetchInOrder(r)
    BY DEF Init, CookieIssued, SessionOwned, FormInOrder, FetchInOrder, IdleForm, IdleFetch
<1>4. QED BY <1>1, <1>2, <1>3 DEF WebInv

(* An answer with success to a call that signs tokens brings a token.      *)
LEMMA SignedToken ==
    ASSUME AuthInv, NEW c \in Call, Signed(c)
    PROVE  call[c].token \in RefreshToken /\ call[c].token.sub \in User
                 /\ call[c].token # NoToken
    BY NoTokenAssumption DEF AuthInv, InOrder, RefreshToken

LEMMA SignedWhenOk ==
    ASSUME AuthInv, NEW c \in Call, call[c].reply = "ok",
           call[c].op \in {"register", "login", "refresh"}
    PROVE  Signed(c)
    BY DEF AuthInv, InOrder, Signed

(* auth-service stands still while the browser takes a step.               *)
LEMMA AuthStill ==
    ASSUME AuthInv, UNCHANGED <<accounts, call, loggedOut>>, Fault \/ UNCHANGED faults
    PROVE  AuthInv' /\ CallsKept
<1>1. faults' \in 0..MaxFaults
    BY FaultsBounded
<1>2. AuthTypeOK'
    BY <1>1 DEF AuthInv, AuthTypeOK
<1>3. (\A c \in Call : InOrder(c))'
    BY DEF AuthInv, InOrder, Signed
<1>4. (HashOwned /\ AddressesUnique)'
    BY DEF AuthInv, HashOwned, AddressesUnique, Exists, Stored
<1>5. Registered'
    BY DEF AuthInv, Registered, RowOf, Exists
<1>6. OnlyLogoutEndsSessions'
    BY DEF AuthInv, OnlyLogoutEndsSessions, Exists
<1>7. CallsKept
    BY DEF CallsKept, RefreshOf, Signed
<1>8. QED BY <1>2, <1>3, <1>4, <1>5, <1>6, <1>7 DEF AuthInv

(* What the browser waits for survives a step of auth-service.             *)
LEMMA Awaited ==
    ASSUME WebInv, CallsKept
    PROVE  /\ \A c \in Call : Signed(c) => Signed(c)' /\ call'[c] = call[c]
           /\ \A c \in Call, u \in User : RefreshOf(c, u) => RefreshOf(c, u)'
           /\ \A c \in Call : call[c].pc # "new" =>
                 call'[c].pc # "new" /\ call'[c].op = call[c].op
    BY DEF CallsKept, Signed

(* A fetch is not disturbed by what auth-service and other fetches do.     *)
LEMMA OtherFetch ==
    ASSUME WebInv, CallsKept, NEW r \in Request, web'[r] = web[r], UNCHANGED <<cookie, form>>
    PROVE  FetchInOrder(r)'
<1>1. FetchInOrder(r) /\ web[r].call \in Call \cup {NoCall}
    BY DEF WebInv, WebTypes, Fetch
<1>2. web[r].pc = "refreshing" /\ web[r].call # NoCall => RefreshOf(web[r].call, web[r].user)'
    BY <1>1, CallsKept DEF CallsKept, FetchInOrder, RefreshOf, Signed
<1>3. web[r].pc = "refreshed" => Signed(web[r].call)' /\ call'[web[r].call] = call[web[r].call]
    BY <1>1, CallsKept DEF CallsKept, FetchInOrder, Signed
<1>4. QED BY <1>1, <1>2, <1>3 DEF FetchInOrder, RefreshOf, Signed

(* A step that leaves the browser alone.                                   *)
LEMMA BrowserStill ==
    ASSUME WebInv, AuthInv', CallsKept, UNCHANGED browserVars, others' \in 0..MaxOthers
    PROVE  WebInv'
<1>1. UNCHANGED <<session, cookie, web, form>>
    BY DEF browserVars
<1>2. WebTypes'
    BY <1>1 DEF WebInv, WebTypes
<1>3. CookieIssued'
    BY <1>1, Awaited DEF WebInv, CookieIssued
<1>4. SessionOwned'
    BY <1>1 DEF WebInv, SessionOwned
<1>5. \A r \in Request : FetchInOrder(r)'
    BY <1>1, OtherFetch
<1>6. FormInOrder'
  <2>1. form.pc = "answered" => Signed(form.call)' /\ call'[form.call] = call[form.call]
    BY <1>1, CallsKept DEF CallsKept, WebInv, FormInOrder, WebTypes, Form, Signed
  <2>2. QED BY <1>1, <2>1, Awaited DEF WebInv, FormInOrder, Signed
<1>7. QED BY <1>2, <1>3, <1>4, <1>5, <1>6 DEF WebInv

-----------------------------------------------------------------------------
(* fetchWithAuth.                                                          *)

(* A fetch goes on, or ends, without a refresh in flight of its own.       *)
LEMMA FetchStep ==
    ASSUME WebInv, NEW r \in Request, NEW f \in Fetch,
           web' = [web EXCEPT ![r] = f], f.pc \notin {"refreshing", "refreshed"},
           UNCHANGED session \/ ClearAuth,
           UNCHANGED <<accounts, call, loggedOut, cookie, form, others>>,
           Fault \/ UNCHANGED faults
    PROVE  WebInv'
<1>1. AuthInv'
    BY AuthStill DEF WebInv
<1>2. /\ web' \in [Request -> Fetch] /\ web'[r] = f
      /\ \A q \in Request : q # r => web'[q] = web[q]
    BY DEF WebInv, WebTypes
<1>3. WebTypes'
    BY <1>2 DEF WebInv, WebTypes, ClearAuth
<1>4. (CookieIssued /\ SessionOwned)'
    BY DEF WebInv, CookieIssued, SessionOwned, Signed, ClearAuth
<1>5. \A q \in Request : FetchInOrder(q)'
    BY <1>2 DEF WebInv, FetchInOrder, RefreshOf, Signed
<1>6. FormInOrder'
    BY DEF WebInv, FormInOrder, Signed, ClearAuth
<1>7. QED BY <1>1, <1>3, <1>4, <1>5, <1>6 DEF WebInv

LEMMA DoneStep ==
    ASSUME WebInv, NEW r \in Request, Done(r), UNCHANGED session \/ ClearAuth,
           UNCHANGED <<accounts, call, loggedOut, cookie, form, others>>,
           Fault \/ UNCHANGED faults
    PROVE  WebInv'
    BY FetchStep DEF Done, IdleFetch, Fetch

LEMMA SendStep ==
    ASSUME WebInv, NEW r \in Request, Send(r)
    PROVE  WebInv'
<1> DEFINE f == [IdleFetch EXCEPT !.pc = "sent", !.bearer =
                    IF session = NoSession THEN NoUser ELSE session.access]
<1>1. f \in Fetch /\ f.pc = "sent"
    BY DEF WebInv, WebTypes, AuthSession, Fetch, IdleFetch
<1>2. web' = [web EXCEPT ![r] = f]
    BY DEF Send
<1> HIDE DEF f
<1>3. QED BY <1>1, <1>2, FetchStep DEF Send, authVars

(* The refresh carries the cookie of the user it captured.                 *)
LEMMA RefusedStep ==
    ASSUME WebInv, NEW r \in Request, Refused(r)
    PROVE  WebInv'
<1>1. CASE session = NoSession
    BY <1>1, DoneStep DEF Refused, authVars
<1>2. CASE session # NoSession
  <2>1. /\ session \in AuthSession
        /\ cookie # NoToken /\ cookie \in RefreshToken
        /\ form.pc = "idle"
    BY <1>2 DEF WebInv, WebTypes, SessionOwned, FormInOrder
  <2>2. PICK u \in User : u = session.user /\ u = cookie.sub
    BY <1>2, <2>1 DEF WebInv, SessionOwned, AuthSession
  <2>3. PICK t \in RefreshToken : t = cookie
    BY <2>1
  <2>4. PICK c \in Call : c = NextCall /\ Start(c, "refresh", NoUser, SomeEmail, t)
    BY <1>2, <2>1, <2>3 DEF Refused, Start
  <2>5. PICK e \in Email : e = SomeEmail
    BY NewCallFacts DEF SomeEmail, Handler
  <2>6. AuthInv' /\ CallsKept /\ RefreshOf(c, u)'
    <3>1. AuthInv /\ Start(c, "refresh", NoUser, e, t) /\ t.sub = u
      BY <2>2, <2>3, <2>4, <2>5 DEF WebInv
    <3>2. AuthInv' /\ CallsKept /\ RefreshOf(c, t.sub)'
      <4>1. /\ "refresh" \in AuthOp \cup UsersOp /\ NoUser \in User \cup {NoUser}
            /\ t \in RefreshToken \cup {NoToken} /\ "refresh" \notin {"update", "remove"}
        BY DEF AuthOp
      <4>2. QED BY <3>1, <4>1, StartStep
    <3>3. QED BY <3>1, <3>2
  <2> DEFINE f == [web[r] EXCEPT !.pc = "refreshing", !.user = u, !.call = c]
  <2>7. web' = [web EXCEPT ![r] = f] /\ UNCHANGED <<session, cookie, form, others>>
    BY <1>2, <2>1, <2>2, <2>4 DEF Refused, WebInv, WebTypes
  <2>8. f \in Fetch /\ f.pc = "refreshing" /\ f.user = u /\ f.call = c
    BY DEF WebInv, WebTypes, Fetch
  <2> HIDE DEF f
  <2>9. /\ web' \in [Request -> Fetch] /\ web'[r] = f
        /\ \A q \in Request : q # r => web'[q] = web[q]
    BY <2>7, <2>8 DEF WebInv, WebTypes
  <2>10. WebTypes'
    BY <2>7, <2>9 DEF WebInv, WebTypes
  <2>11. (CookieIssued /\ SessionOwned)'
    BY <2>6, <2>7, Awaited DEF WebInv, CookieIssued, SessionOwned
  <2>12. \A q \in Request : FetchInOrder(q)'
    <3>1. FetchInOrder(r)'
      BY <2>1, <2>2, <2>6, <2>7, <2>8, <2>9 DEF FetchInOrder, RefreshOf, Signed
    <3>2. ASSUME NEW q \in Request, q # r PROVE FetchInOrder(q)'
      BY <2>6, <2>7, <2>9, <3>2, OtherFetch
    <3>3. QED BY <3>1, <3>2
  <2>13. FormInOrder'
    BY <2>1, <2>7 DEF FormInOrder
  <2>14. QED BY <2>6, <2>10, <2>11, <2>12, <2>13 DEF WebInv
<1>3. QED BY <1>1, <1>2

(* The cookie changes to another token of the same user.                   *)
LEMMA RefreshArrivesStep ==
    ASSUME WebInv, NEW r \in Request, RefreshArrives(r)
    PROVE  WebInv'
<1> DEFINE f == [web[r] EXCEPT !.pc = "refreshed"]
<1>1. /\ web[r].pc = "refreshing" /\ web[r].call # NoCall /\ web[r] \in Fetch
      /\ FetchInOrder(r) /\ AuthInv
    BY DEF RefreshArrives, WebInv, WebTypes
<1>2. PICK c \in Call : c = web[r].call
    BY <1>1 DEF Fetch
<1>3. PICK u \in User : u = web[r].user /\ cookie.sub = u /\ cookie # NoToken /\ form.pc = "idle"
    BY <1>1 DEF FetchInOrder
<1>4. Signed(c) /\ call[c].token.sub = u /\ call[c].token \in RefreshToken
      /\ call[c].token # NoToken
    BY <1>1, <1>2, <1>3, SignedWhenOk, SignedToken
    DEF RefreshArrives, FetchInOrder, RefreshOf
<1>5. AuthInv' /\ CallsKept
    BY <1>1, AuthStill DEF RefreshArrives, authVars
<1>6. /\ cookie' = call[c].token /\ web' = [web EXCEPT ![r] = f]
      /\ UNCHANGED <<call, session, form, others>>
    BY <1>2 DEF RefreshArrives, authVars
<1>7. f \in Fetch /\ f.pc = "refreshed" /\ f.user = u /\ f.call = c
    BY <1>1, <1>2, <1>3 DEF Fetch
<1> HIDE DEF f
<1>8. /\ web' \in [Request -> Fetch] /\ web'[r] = f
      /\ \A q \in Request : q # r => web'[q] = web[q]
    BY <1>6, <1>7 DEF WebInv, WebTypes
<1>9. WebTypes'
    BY <1>4, <1>6, <1>8 DEF WebInv, WebTypes
<1>10. CookieIssued'
    BY <1>4, <1>6 DEF CookieIssued, Signed
<1>11. SessionOwned'
    BY <1>3, <1>4, <1>6 DEF WebInv, SessionOwned
<1>12. \A q \in Request : FetchInOrder(q)'
  <2>1. FetchInOrder(r)'
    BY <1>3, <1>4, <1>6, <1>7, <1>8 DEF FetchInOrder, Signed
  <2>2. ASSUME NEW q \in Request, q # r PROVE FetchInOrder(q)'
    <3>1. FetchInOrder(q) /\ web'[q] = web[q]
      BY <1>8, <2>2 DEF WebInv
    <3>2. QED BY <1>3, <1>4, <1>6, <3>1 DEF FetchInOrder, RefreshOf, Signed
  <2>3. QED BY <2>1, <2>2
<1>13. FormInOrder'
    BY <1>3, <1>6 DEF FormInOrder
<1>14. QED BY <1>5, <1>9, <1>10, <1>11, <1>12, <1>13 DEF WebInv

(* The captured user, the new token and the cookie are of one user.        *)
LEMMA RefreshedStep ==
    ASSUME WebInv, NEW r \in Request, Refreshed(r)
    PROVE  WebInv'
<1> DEFINE f == [web[r] EXCEPT !.pc = "retrying"]
<1>1. web[r].pc = "refreshed" /\ web[r] \in Fetch /\ FetchInOrder(r) /\ AuthInv
    BY DEF Refreshed, WebInv, WebTypes
<1>2. PICK u \in User : /\ u = web[r].user /\ cookie.sub = u /\ cookie # NoToken
                        /\ form.pc = "idle" /\ call[web[r].call].token.sub = u
    BY <1>1 DEF FetchInOrder
<1>3. AuthInv' /\ CallsKept
    BY <1>1, AuthStill DEF Refreshed, authVars
<1>4. /\ session' = [user |-> u, access |-> u] /\ web' = [web EXCEPT ![r] = f]
      /\ UNCHANGED <<call, cookie, form, others>>
    BY <1>2 DEF Refreshed, SetAuth, authVars
<1>5. f \in Fetch /\ f.pc = "retrying"
    BY <1>1 DEF Fetch
<1> HIDE DEF f
<1>6. /\ web' \in [Request -> Fetch] /\ web'[r] = f
      /\ \A q \in Request : q # r => web'[q] = web[q]
    BY <1>4, <1>5 DEF WebInv, WebTypes
<1>7. WebTypes'
    BY <1>4, <1>6 DEF WebInv, WebTypes, AuthSession
<1>8. CookieIssued'
    BY <1>4 DEF WebInv, CookieIssued, Signed
<1>9. SessionOwned'
    BY <1>2, <1>4 DEF SessionOwned
<1>10. \A q \in Request : FetchInOrder(q)'
  <2>1. FetchInOrder(r)'
    BY <1>5, <1>6 DEF FetchInOrder
  <2>2. ASSUME NEW q \in Request, q # r PROVE FetchInOrder(q)'
    BY <1>3, <1>4, <1>6, <2>2, OtherFetch
  <2>3. QED BY <2>1, <2>2
<1>11. FormInOrder'
    BY <1>2, <1>4 DEF FormInOrder
<1>12. QED BY <1>3, <1>7, <1>8, <1>9, <1>10, <1>11 DEF WebInv

-----------------------------------------------------------------------------
(* The forms.                                                              *)

(* A step of the form; the cookie stays with the user of the session.      *)
LEMMA FormStep ==
    ASSUME WebInv, AuthInv', CallsKept, form' \in Form, FormInOrder', WebTypes',
           CookieIssued', SessionOwned', UNCHANGED web,
           \A r \in Request : web[r].pc \notin {"refreshing", "refreshed"}
    PROVE  WebInv'
    BY DEF WebInv, FetchInOrder

(* No refresh is in flight while a form is up.                             *)
LEMMA NoRefresh ==
    ASSUME WebInv, form.pc # "idle", NEW r \in Request
    PROVE  web[r].pc \notin {"refreshing", "refreshed"}
    BY DEF WebInv, FetchInOrder

LEMMA SubmitStep ==
    ASSUME WebInv, NEW op \in {"login", "register"}, NEW e \in Email, MaySubmit,
           Start(NextCall, op, NoUser, e, NoToken),
           form' = [pc |-> "sending", call |-> NextCall],
           UNCHANGED <<session, cookie, web, others>>
    PROVE  WebInv'
<1>1. PICK c \in Call : c = NextCall /\ Start(c, op, NoUser, e, NoToken)
    BY DEF Start
<1>2. /\ AuthInv /\ op \in AuthOp \cup UsersOp /\ NoUser \in User \cup {NoUser}
      /\ NoToken \in RefreshToken \cup {NoToken}
      /\ op \notin {"refresh", "logout"} /\ op \notin {"update", "remove"}
    BY DEF WebInv, AuthOp
<1>3. AuthInv' /\ CallsKept /\ call'[c].op = op /\ call'[c].pc # "new"
    BY <1>1, <1>2, StartStep
<1>4. form' = [pc |-> "sending", call |-> c]
    BY <1>1
<1>5. WebTypes'
    BY <1>4 DEF WebInv, WebTypes, Form
<1>6. CookieIssued'
    BY <1>3, Awaited DEF WebInv, CookieIssued
<1>7. SessionOwned'
    BY DEF WebInv, SessionOwned
<1>8. FormInOrder'
    BY <1>3, <1>4 DEF FormInOrder, MaySubmit
<1>9. QED BY <1>3, <1>5, <1>6, <1>7, <1>8, FormStep DEF MaySubmit, WebTypes

LEMMA FormAnsweredStep ==
    ASSUME WebInv, FormAnswered
    PROVE  WebInv'
<1>1. /\ form \in Form /\ form.pc = "sending" /\ AuthInv /\ session = NoSession
      /\ \A r \in Request : web[r].pc \notin {"refreshing", "refreshed"}
    BY NoRefresh DEF FormAnswered, WebInv, WebTypes, FormInOrder
<1>2. PICK c \in Call : c = form.call
    BY <1>1 DEF WebInv, FormInOrder
<1>3. /\ Signed(c) /\ call[c].token \in RefreshToken /\ call[c].token # NoToken
    BY <1>1, <1>2, SignedWhenOk, SignedToken DEF FormAnswered, WebInv, FormInOrder
<1>4. AuthInv' /\ CallsKept
    BY <1>1, AuthStill DEF FormAnswered, authVars
<1>5. /\ cookie' = call[c].token /\ UNCHANGED <<call, session, web, others>>
      /\ form' \in Form /\ form'.pc = "answered" /\ form'.call = c
    BY <1>1, <1>2 DEF FormAnswered, Form, authVars
<1>6. WebTypes'
    BY <1>3, <1>5 DEF WebInv, WebTypes
<1>7. (CookieIssued /\ SessionOwned)'
    BY <1>1, <1>3, <1>5 DEF CookieIssued, SessionOwned, Signed
<1>8. FormInOrder'
    BY <1>1, <1>2, <1>3, <1>5 DEF WebInv, FormInOrder, Signed
<1>9. QED BY <1>1, <1>4, <1>5, <1>6, <1>7, <1>8, FormStep

LEMMA FormRefusedStep ==
    ASSUME WebInv, FormRefused
    PROVE  WebInv'
<1>1. /\ form.pc = "sending" /\ AuthInv
      /\ \A r \in Request : web[r].pc \notin {"refreshing", "refreshed"}
    BY NoRefresh DEF FormRefused, WebInv
<1>2. AuthInv' /\ CallsKept
    BY <1>1, AuthStill DEF FormRefused, authVars
<1>3. /\ UNCHANGED <<call, session, cookie, web, others>>
      /\ form' \in Form /\ form'.pc = "idle"
    BY DEF FormRefused, IdleForm, Form, authVars
<1>4. (WebTypes /\ CookieIssued /\ SessionOwned /\ FormInOrder)'
    BY <1>3 DEF WebInv, WebTypes, CookieIssued, SessionOwned, FormInOrder, Signed
<1>5. QED BY <1>1, <1>2, <1>3, <1>4, FormStep

LEMMA FormStoresStep ==
    ASSUME WebInv, FormStores
    PROVE  WebInv'
<1>1. /\ form.pc = "answered" /\ AuthInv
      /\ \A r \in Request : web[r].pc \notin {"refreshing", "refreshed"}
    BY NoRefresh DEF FormStores, WebInv
<1>2. PICK u \in User : /\ u = call[form.call].token.sub
                        /\ cookie.sub = u /\ cookie # NoToken
    BY <1>1, SignedToken DEF WebInv, FormInOrder
<1>3. AuthInv' /\ CallsKept
    BY <1>1, AuthStill DEF FormStores, authVars
<1>4. /\ session' = [user |-> u, access |-> u] /\ UNCHANGED <<call, cookie, web, others>>
      /\ form' \in Form /\ form'.pc = "idle"
    BY <1>2 DEF FormStores, SetAuth, IdleForm, Form, authVars
<1>5. (WebTypes /\ CookieIssued /\ FormInOrder)'
    BY <1>4 DEF WebInv, WebTypes, AuthSession, CookieIssued, FormInOrder, Signed
<1>6. SessionOwned'
    BY <1>2, <1>4 DEF SessionOwned
<1>7. QED BY <1>1, <1>3, <1>4, <1>5, <1>6, FormStep

-----------------------------------------------------------------------------
(* Reloads and other clients.                                              *)
LEMMA ReloadStep ==
    ASSUME WebInv, Reload
    PROVE  WebInv'
<1>1. AuthInv' /\ CallsKept
    BY AuthStill DEF Reload, WebInv
<1>2. /\ UNCHANGED <<call, session, cookie, others>>
      /\ IdleFetch \in Fetch /\ IdleFetch.pc = "idle" /\ form' \in Form /\ form'.pc = "idle"
      /\ web' = [r \in Request |-> IdleFetch]
    BY DEF Reload, IdleForm, Form, IdleFetch, Fetch
<1>3. WebTypes'
    BY <1>2 DEF WebInv, WebTypes
<1>4. (CookieIssued /\ SessionOwned /\ FormInOrder)'
    BY <1>2 DEF WebInv, CookieIssued, SessionOwned, FormInOrder, Signed
<1>5. \A r \in Request : FetchInOrder(r)'
    BY <1>2 DEF FetchInOrder
<1>6. QED BY <1>1, <1>3, <1>4, <1>5 DEF WebInv

LEMMA OtherClientStep ==
    ASSUME WebInv, NEW op, OtherClient(op)
    PROVE  WebInv'
<1>1. /\ AuthInv /\ others' \in 0..MaxOthers /\ UNCHANGED browserVars
      /\ NoUser \in User \cup {NoUser} /\ NoToken \in RefreshToken \cup {NoToken}
    BY OthersAssumption DEF OtherClient, WebInv, WebTypes
<1>2. SomeEmail \in Email /\ Addresses \subseteq Email
    BY NewCallFacts DEF SomeEmail, Addresses, Handler
<1>3. PICK e1 \in Email : e1 = SomeEmail
    BY <1>2
<1> SUFFICES AuthInv' /\ CallsKept
    BY <1>1, BrowserStill
<1>4. CASE op \in {"login", "create"} /\ \E e \in Addresses : Start(NextCall, op, NoUser, e, NoToken)
  <2>1. PICK e \in Email : Start(NextCall, op, NoUser, e, NoToken)
    BY <1>2, <1>4
  <2>2. /\ op \in AuthOp \cup UsersOp
        /\ op \notin {"refresh", "logout"} /\ op \notin {"update", "remove"}
    BY <1>4 DEF AuthOp, UsersOp
  <2>3. QED BY <1>1, <2>1, <2>2, StartStep
<1>5. CASE op = "logout" /\ \E d \in Call :
              /\ call[d].token # NoToken
              /\ Start(NextCall, op, NoUser, SomeEmail, call[d].token)
  <2>1. PICK d \in Call : /\ call[d].token # NoToken
                          /\ Start(NextCall, op, NoUser, SomeEmail, call[d].token)
    BY <1>5
  <2>2. PICK t \in RefreshToken : t = call[d].token
    BY <1>1, <2>1 DEF AuthInv, AuthTypeOK, Handler
  <2>3. /\ op \in AuthOp \cup UsersOp /\ op \notin {"update", "remove"}
        /\ t \in RefreshToken \cup {NoToken} /\ Start(NextCall, op, NoUser, e1, t)
    BY <1>3, <1>5, <2>1, <2>2 DEF AuthOp
  <2>4. QED BY <1>1, <2>3, StartStep
<1>6. CASE op = "update" /\ \E u \in Stored, e \in Email : Start(NextCall, op, u, e, NoToken)
  <2>1. PICK u \in User, e \in Email : Start(NextCall, op, u, e, NoToken)
    BY <1>6 DEF Stored
  <2>2. /\ op \in AuthOp \cup UsersOp /\ u \in User \cup {NoUser}
        /\ op \notin {"refresh", "logout"}
    BY <1>6 DEF UsersOp
  <2>3. QED BY <1>1, <2>1, <2>2, StartStep
<1>7. CASE op = "remove" /\ \E u \in User : Start(NextCall, op, u, SomeEmail, NoToken)
  <2>1. PICK u \in User : Start(NextCall, op, u, e1, NoToken)
    BY <1>3, <1>7
  <2>2. /\ op \in AuthOp \cup UsersOp /\ u \in User \cup {NoUser}
        /\ op \notin {"refresh", "logout"}
    BY <1>7 DEF UsersOp
  <2>3. QED BY <1>1, <2>1, <2>2, StartStep
<1>8. QED BY <1>4, <1>5, <1>6, <1>7 DEF OtherClient

LEMMA AuthServiceStep ==
    ASSUME WebInv, AuthNext, UNCHANGED webVars
    PROVE  WebInv'
    BY AuthStep, BrowserStill DEF WebInv, WebTypes, webVars

-----------------------------------------------------------------------------
(* Every step keeps the invariant.                                         *)
LEMMA WebInvStep ==
    ASSUME WebInv, [Next]_vars
    PROVE  WebInv'
<1>1. CASE AuthNext /\ UNCHANGED webVars
    BY <1>1, AuthServiceStep
<1>2. ASSUME NEW r \in Request, Send(r) \/ WebStep(r) \/ RefreshFails(r)
      PROVE  WebInv'
  <2>1. CASE Send(r)
    BY <2>1, SendStep
  <2>2. CASE Accepted(r)
    BY <2>2, DoneStep DEF Accepted, authVars
  <2>3. CASE Refused(r)
    BY <2>3, RefusedStep
  <2>4. CASE RefreshArrives(r)
    BY <2>4, RefreshArrivesStep
  <2>5. CASE Refreshed(r)
    BY <2>5, RefreshedStep
  <2>6. CASE RefreshDenied(r)
    BY <2>6, DoneStep DEF RefreshDenied, authVars
  <2>7. CASE Retried(r)
    BY <2>7, DoneStep DEF Retried, authVars
  <2>8. CASE RefreshFails(r)
    BY <2>8, DoneStep DEF RefreshFails
  <2>9. QED BY <1>2, <2>1, <2>2, <2>3, <2>4, <2>5, <2>6, <2>7, <2>8 DEF WebStep
<1>3. ASSUME NEW e \in Addresses, SubmitLogin(e) \/ SubmitRegister(e)
      PROVE  WebInv'
  <2>1. e \in Email
    BY NewCallFacts DEF Addresses, SomeEmail, Handler
  <2>2. CASE SubmitLogin(e)
    BY <2>1, <2>2, SubmitStep DEF SubmitLogin
  <2>3. CASE SubmitRegister(e)
    BY <2>1, <2>3, SubmitStep DEF SubmitRegister
  <2>4. QED BY <1>3, <2>2, <2>3
<1>4. CASE FormAnswered
    BY <1>4, FormAnsweredStep
<1>5. CASE FormRefused
    BY <1>5, FormRefusedStep
<1>6. CASE FormStores
    BY <1>6, FormStoresStep
<1>7. CASE Reload
    BY <1>7, ReloadStep
<1>8. ASSUME NEW op \in OtherOps, OtherClient(op) PROVE WebInv'
    BY <1>8, OtherClientStep
<1>9. CASE UNCHANGED vars
  <2>1. AuthInv' /\ CallsKept
    BY <1>9, AuthStill DEF WebInv, vars, authVars
  <2>2. QED BY <1>9, <2>1, BrowserStill DEF vars, webVars, WebInv, WebTypes
<1>10. QED BY <1>1, <1>2, <1>3, <1>4, <1>5, <1>6, <1>7, <1>8, <1>9 DEF Next

LEMMA WebInvariant == Spec => []WebInv
<1>1. Init => WebInv
    BY WebInitInv
<1>2. WebInv /\ [Next]_vars => WebInv'
    BY WebInvStep
<1>3. QED BY <1>1, <1>2, PTL DEF Spec

(* Every variable of the browser and of auth-service keeps its type.       *)
THEOREM SessionTypeCorrect == Spec => []TypeOK
<1>1. WebInv => TypeOK
    BY DEF WebInv, WebTypes, AuthInv, TypeOK
<1>2. QED BY <1>1, WebInvariant, PTL

(* Of racing registrations of one address the table keeps one, and every   *)
(* registration that was answered with tokens has its row                  *)
(* (auth.service.ts:34).                                                   *)
THEOREM RegistrationsUnique == Spec => []RegisteredOnce
<1>1. WebInv => RegisteredOnce
    BY RegisteredOnceFollows DEF WebInv
<1>2. QED BY <1>1, WebInvariant, PTL

(* No interleaving of refreshes, logins and failures of any number of      *)
(* devices leaves a signed-in user without a hash; only a logout does      *)
(* (auth.service.ts:94).                                                   *)
THEOREM LogoutAloneEndsSessions == Spec => []OnlyLogoutEndsSessions
<1>1. WebInv => OnlyLogoutEndsSessions
    BY DEF WebInv, AuthInv
<1>2. QED BY <1>1, WebInvariant, PTL

(* The session a browser shows can be renewed with its cookie, whatever    *)
(* the requests that refresh at once (apiClient.ts:37).                    *)
THEOREM SessionsRenew == Spec => []SessionRenewable
<1>1. ASSUME WebInv PROVE SessionRenewable
  <2>1. SUFFICES ASSUME session # NoSession PROVE SessionRenewable
    BY DEF SessionRenewable
  <2>2. PICK u \in User : /\ u = session.user /\ session.access = u
                          /\ cookie # NoToken /\ cookie.sub = u
    BY <1>1, <2>1 DEF WebInv, WebTypes, SessionOwned, AuthSession
  <2>3. PICK c \in Call : Signed(c) /\ call[c].token = cookie
    BY <1>1, <2>2 DEF WebInv, CookieIssued
  <2>4. Exists(u) /\ u \notin loggedOut => accounts[u].hash # NoToken
    BY <1>1, <2>2, <2>3 DEF WebInv, AuthInv, OnlyLogoutEndsSessions, Signed
  <2>5. Exists(u) /\ accounts[u].hash # NoToken => Matches(cookie, accounts[u].hash)
    BY <1>1, <2>2 DEF WebInv, AuthInv, HashOwned, Matches
  <2>6. QED BY <2>2, <2>4, <2>5 DEF SessionRenewable
<1>2. QED BY <1>1, WebInvariant, PTL
=============================================================================
