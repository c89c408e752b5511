-------------------------- MODULE AuthServiceProofs --------------------------
(***************************************************************************)
(* TLAPS proofs about the handlers of AuthService, for any number of       *)
(* users, addresses, calls and failures.  WebSessionProofs draws the       *)
(* theorems of the composition from them.                                  *)
(***************************************************************************)
EXTENDS AuthService, TLAPS

-----------------------------------------------------------------------------
(* The inductive invariant.                                                *)

(* The call was answered with a refresh token of its own.                  *)
Signed(c) ==
    /\ call[c].pc = "ended" /\ call[c].reply = "ok"
    /\ call[c].op \in {"register", "login", "refresh"}

(* What a handler relies on at each of its calls: in particular a refresh  *)
(* never gets to clear a hash, and the rows it works on exist or did.      *)
InOrder(c) ==
    /\ call[c].pc = "new" => call[c].op = "none"
    /\ call[c].reply # "none" => call[c].pc = "ended"
    /\ call[c].pc = "insert" => call[c].op \in {"register", "create"}
    /\ call[c].pc = "persist" =>
          /\ call[c].op \in {"register", "login", "refresh"}
          /\ call[c].user \in User /\ accounts[call[c].user] # NoAccount
    /\ call[c].op = "refresh" /\ call[c].pc = "find" => call[c].token \in RefreshToken
    /\ call[c].pc = "clear" => call[c].op = "logout" /\ call[c].token \in RefreshToken
    /\ call[c].op \in {"update", "remove"} => call[c].user \in User
    /\ Signed(c) => call[c].token \in RefreshToken /\ accounts[call[c].token.sub] # NoAccount

(* A hash is the hash of a token of its own row.                           *)
HashOwned ==
    \A u \in User : Exists(u) /\ accounts[u].hash # NoToken => accounts[u].hash.sub = u

AddressesUnique ==
    \A u, v \in Stored : accounts[u].email = accounts[v].email => u = v

(* The row u of a registration is there, under its address or one it was   *)
(* given later, or was removed.                                            *)
RowOf(c, u) ==
    \/ accounts[u] = Removed
    \/ /\ Exists(u)
       /\ \/ accounts[u].email = call[c].email
          \/ \E d \in Call : call[d].op = "update" /\ call[d].user = u

Registered ==
    \A c \in Call :
        call[c].op = "register" =>
            /\ call[c].pc = "persist" => RowOf(c, call[c].user)
            /\ call[c].reply = "ok" => RowOf(c, call[c].token.sub)

AuthInv ==
    /\ AuthTypeOK
    /\ \A c \in Call : InOrder(c)
    /\ HashOwned
    /\ AddressesUnique
    /\ Registered
    /\ OnlyLogoutEndsSessions

(* The refresh c works for the user u and will answer with a token of u.   *)
RefreshOf(c, u) ==
    /\ call[c].op = "refresh" /\ call[c].pc \in {"find", "persist", "ended"}
    /\ call[c].pc = "find" => call[c].token.sub = u
    /\ call[c].pc = "persist" => call[c].user = u
    /\ Signed(c) => call[c].token.sub = u

(* What a step of auth-service leaves to those who wait for its answers.   *)
CallsKept ==
    \A c \in Call :
        /\ call[c].pc # "new" => call'[c].pc # "new" /\ call'[c].op = call[c].op
        /\ call[c].pc = "ended" => call'[c] = call[c]
        /\ \A u \in User : RefreshOf(c, u) => RefreshOf(c, u)'

-----------------------------------------------------------------------------
(* The initial states.                                                     *)
LEMMA NewCallFacts ==
    /\ NewCall \in Handler /\ NewCall.pc = "new" /\ NewCall.op = "none"
    /\ NewCall.reply = "none" /\ NewCall.token = NoToken /\ NewCall.user = NoUser
    BY EmailAssumption DEF NewCall, Handler, Reply

LEMMA AuthInitInv == AuthInit => AuthInv
<1> SUFFICES ASSUME AuthInit PROVE AuthInv
    OBVIOUS
<1>1. AuthTypeOK
    BY NewCallFacts, AuthFaultsAssumption DEF AuthInit, AuthTypeOK
<1>2. Stored = {}
    BY DEF AuthInit, Stored, Exists
<1>3. /\ \A c \in Call : InOrder(c)
      /\ OnlyLogoutEndsSessions
      /\ Registered
    BY NewCallFacts DEF AuthInit, InOrder, Signed, OnlyLogoutEndsSessions, Registered
<1>4. HashOwned /\ AddressesUnique
    BY <1>2 DEF AuthInit, HashOwned, AddressesUnique, Exists
<1>5. QED BY <1>1, <1>3, <1>4 DEF AuthInv

(* RegisteredOnce is part of the invariant.                                *)
LEMMA RegisteredOnceFollows == AuthInv => RegisteredOnce
    BY DEF AuthInv, RegisteredOnce, AddressesUnique, Registered, RowOf

-----------------------------------------------------------------------------
(* A call arrives.                                                         *)
LEMMA StartStep ==
    ASSUME AuthInv, NEW c, NEW op \in AuthOp \cup UsersOp, NEW u \in User \cup {NoUser},
           NEW e \in Email, NEW t \in RefreshToken \cup {NoToken}, Start(c, op, u, e, t),
           op \in {"refresh", "logout"} => t \in RefreshToken,
           op \in {"update", "remove"} => u \in User
    PROVE  /\ AuthInv' /\ CallsKept
           /\ c \in Call
           /\ op = "refresh" => RefreshOf(c, t.sub)'
           /\ call'[c].op = op /\ call'[c].pc # "new"
<1> USE DEF AuthInv
<1> DEFINE n == [NewCall EXCEPT !.op = op, !.user = u, !.email = e, !.token = t,
              !.pc = CASE op \in {"register", "login", "refresh", "remove"} -> "find"
                       [] op = "logout" -> "clear"
                       [] op = "create" -> "insert"
                       [] op = "update" -> "update"]
<1>1. /\ c \in Call /\ call[c].pc = "new"
      /\ call' = [call EXCEPT ![c] = n] /\ UNCHANGED <<accounts, loggedOut, faults>>
    BY DEF Start
<1>2. /\ n \in Handler /\ n.op = op /\ n.user = u /\ n.token = t /\ n.reply = "none"
      /\ n.pc \in {"find", "clear", "insert", "update"}
      /\ op = "refresh" => n.pc = "find"
      /\ n.pc = "clear" => op = "logout"
      /\ n.pc = "insert" => op = "create"
    BY NewCallFacts DEF AuthOp, UsersOp, Handler
<1> HIDE DEF n
<1>3. /\ call' \in [Call -> Handler] /\ call'[c] = n
      /\ \A d \in Call : d # c => call'[d] = call[d]
    BY <1>1, <1>2 DEF AuthTypeOK
<1>4. AuthTypeOK'
    BY <1>1, <1>3 DEF AuthTypeOK
<1>5. \A d \in Call : InOrder(d)'
    BY <1>1, <1>2, <1>3 DEF InOrder, Signed
<1>6. (HashOwned /\ AddressesUnique)'
    BY <1>1 DEF HashOwned, AddressesUnique, Exists, Stored
<1>7. Registered'
  <2>1. \A d \in Call, v \in User : RowOf(d, v) /\ d # c => RowOf(d, v)'
    BY <1>1, <1>2, <1>3 DEF RowOf, Exists, InOrder
  <2>2. QED BY <1>1, <1>2, <1>3, <2>1 DEF Registered, InOrder, Signed, RefreshToken
<1>8. OnlyLogoutEndsSessions'
    BY <1>1, <1>2, <1>3 DEF OnlyLogoutEndsSessions, Exists
<1>9. CallsKept
    BY <1>1, <1>2, <1>3 DEF CallsKept, RefreshOf, Signed
<1>10. op = "refresh" => RefreshOf(c, t.sub)'
    BY <1>1, <1>2, <1>3 DEF RefreshOf, Signed
<1>11. QED BY <1>1, <1>2, <1>3, <1>4, <1>5, <1>6, <1>7, <1>8, <1>9, <1>10

-----------------------------------------------------------------------------
(* A handler goes on to n and leaves the table alone.                      *)
LEMMA CallStep ==
    ASSUME AuthInv, NEW c \in Call, NEW n \in Handler,
           call[c].pc \notin {"new", "ended"},
           call' = [call EXCEPT ![c] = n], n.op = call[c].op,
           n.pc \in {"find", "insert", "persist", "delete", "ended"},
           n.reply # "none" => n.pc = "ended",
           n.reply = "ok" => n.op \notin {"register", "login", "refresh"},
           n.pc \in {"find", "delete"} => n.op \in {"update", "remove"},
           n.pc = "insert" => n.op = "register",
           n.pc = "persist" => /\ n.op \in {"login", "refresh"}
                               /\ n.user \in User /\ accounts[n.user] # NoAccount,
           n.op = "refresh" /\ n.pc = "persist" => n.user = call[c].token.sub,
           n.op = "refresh" => call[c].pc = "find" \/ n.pc = "ended",
           n.op \in {"update", "remove"} => n.user = call[c].user,
           UNCHANGED <<accounts, loggedOut>>, faults' \in 0..MaxFaults
    PROVE  AuthInv' /\ CallsKept
<1> USE DEF AuthInv
<1>1. /\ call' \in [Call -> Handler] /\ call'[c] = n
      /\ \A d \in Call : d # c => call'[d] = call[d]
    BY DEF AuthTypeOK
<1>2. AuthTypeOK'
    BY <1>1 DEF AuthTypeOK
<1>3. \A d \in Call : InOrder(d)'
    BY <1>1 DEF InOrder, Signed
<1>4. (HashOwned /\ AddressesUnique)'
    BY DEF HashOwned, AddressesUnique, Exists, Stored
<1>5. Registered'
  <2>1. \A d \in Call, v \in User : RowOf(d, v) /\ d # c => RowOf(d, v)'
    BY <1>1 DEF RowOf, Exists
  <2>2. QED BY <1>1, <2>1 DEF Registered, InOrder, Signed, RefreshToken
<1>6. OnlyLogoutEndsSessions'
    BY <1>1 DEF OnlyLogoutEndsSessions, Exists
<1>7. CallsKept
    BY <1>1 DEF CallsKept, RefreshOf, Signed
<1>8. QED BY <1>2, <1>3, <1>4, <1>5, <1>6, <1>7

(* Answer with an error, or with the success of an operation that signs no *)
(* token.                                                                  *)
LEMMA AnswerStep ==
    ASSUME AuthInv, NEW c \in Call, NEW reply \in Reply \ {"none"},
           call[c].pc \notin {"new", "ended"}, Answer(c, reply),
           reply = "ok" => call[c].op \notin {"register", "login", "refresh"},
           UNCHANGED <<accounts, loggedOut>>, faults' \in 0..MaxFaults
    PROVE  AuthInv' /\ CallsKept
<1> DEFINE n == IF reply = "ok" THEN [call[c] EXCEPT !.pc = "ended", !.reply = reply]
                ELSE [NewCall EXCEPT !.op = call[c].op, !.user = call[c].user,
                                     !.pc = "ended", !.reply = reply]
<1>1. call[c] \in Handler
    BY DEF AuthInv, AuthTypeOK
<1>2. /\ n \in Handler /\ n.op = call[c].op /\ n.pc = "ended" /\ n.reply = reply
      /\ n.user = call[c].user
    BY <1>1, NewCallFacts DEF Handler
<1>3. call' = [call EXCEPT ![c] = n]
    BY DEF Answer
<1> HIDE DEF n
<1>4. QED BY <1>2, <1>3, CallStep

(* Goto another call of the same handler.                                  *)
LEMMA GotoStep ==
    ASSUME AuthInv, NEW c \in Call, NEW pc \in {"find", "insert", "delete"},
           call[c].pc \notin {"new", "ended"}, Goto(c, pc),
           pc \in {"find", "delete"} => call[c].op \in {"update", "remove"},
           pc = "insert" => call[c].op = "register",
           UNCHANGED <<accounts, loggedOut>>, faults' \in 0..MaxFaults
    PROVE  AuthInv' /\ CallsKept
<1> DEFINE n == [call[c] EXCEPT !.pc = pc]
<1>1. call[c] \in Handler /\ (call[c].reply # "none" => call[c].pc = "ended")
    BY DEF AuthInv, AuthTypeOK, InOrder
<1>2. /\ n \in Handler /\ n.op = call[c].op /\ n.pc = pc /\ n.reply = call[c].reply
      /\ n.user = call[c].user
    BY <1>1 DEF Handler
<1>3. call' = [call EXCEPT ![c] = n]
    BY DEF Goto
<1> HIDE DEF n
<1>4. QED BY <1>1, <1>2, <1>3, CallStep

LEMMA FaultsBounded ==
    ASSUME AuthInv, Fault \/ UNCHANGED faults
    PROVE  faults' \in 0..MaxFaults
    BY AuthFaultsAssumption DEF AuthInv, AuthTypeOK, Fault

-----------------------------------------------------------------------------
(* The calls that only read, and those that fail.                          *)
LEMMA ExpiredStep ==
    ASSUME AuthInv, NEW c \in Call, RefreshTokenExpired(c)
    PROVE  AuthInv' /\ CallsKept
<1>1. UNCHANGED <<accounts, loggedOut>> /\ faults' \in 0..MaxFaults
    BY FaultsBounded DEF RefreshTokenExpired
<1>2. CASE call[c].op = "refresh" /\ call[c].pc = "find" /\ Answer(c, "unauthorized")
    BY <1>1, <1>2, AnswerStep DEF Reply
<1>3. CASE call[c].op = "logout" /\ call[c].pc = "clear" /\ Answer(c, "ok")
    BY <1>1, <1>3, AnswerStep DEF Reply
<1>4. QED BY <1>2, <1>3 DEF RefreshTokenExpired

LEMMA FindForRegisterStep ==
    ASSUME AuthInv, NEW c \in Call, FindForRegister(c)
    PROVE  AuthInv' /\ CallsKept
<1>1. /\ UNCHANGED <<accounts, loggedOut>> /\ faults' \in 0..MaxFaults
      /\ call[c].op = "register" /\ call[c].pc = "find"
    BY FaultsBounded DEF FindForRegister
<1>2. CASE EmailTaken(call[c].email)
    BY <1>1, <1>2, AnswerStep DEF FindForRegister, Reply
<1>3. CASE ~EmailTaken(call[c].email)
    BY <1>1, <1>3, GotoStep DEF FindForRegister
<1>4. QED BY <1>2, <1>3

LEMMA FindForLoginStep ==
    ASSUME AuthInv, NEW c \in Call, FindForLogin(c)
    PROVE  AuthInv' /\ CallsKept
<1>1. /\ UNCHANGED <<accounts, loggedOut>> /\ faults' \in 0..MaxFaults
      /\ call[c].op = "login" /\ call[c].pc = "find"
      /\ call \in [Call -> Handler] /\ InOrder(c)
    BY FaultsBounded DEF FindForLogin, AuthInv, AuthTypeOK
<1>2. CASE Answer(c, "unauthorized")
    BY <1>1, <1>2, AnswerStep DEF Reply
<1>3. ASSUME NEW u \in Stored, call' = [call EXCEPT ![c].pc = "persist", ![c].user = u]
      PROVE  AuthInv' /\ CallsKept
  <2> DEFINE n == [call[c] EXCEPT !.pc = "persist", !.user = u]
  <2>1. u \in User /\ accounts[u] # NoAccount
    BY DEF Stored, Exists
  <2>2. /\ n \in Handler /\ n.op = "login" /\ n.pc = "persist" /\ n.user = u
        /\ n.reply = call[c].reply
    BY <1>1, <2>1 DEF Handler
  <2>3. call' = [call EXCEPT ![c] = n]
    BY <1>1, <1>3
  <2> HIDE DEF n
  <2>4. QED BY <1>1, <2>1, <2>2, <2>3, CallStep DEF InOrder
<1>4. QED BY <1>2, <1>3 DEF FindForLogin

(* The hash of a row is one the row's tokens match, so a refresh is never  *)
(* led to clear it.                                                        *)
LEMMA FindForRefreshStep ==
    ASSUME AuthInv, NEW c \in Call, FindForRefresh(c)
    PROVE  AuthInv' /\ CallsKept
<1> DEFINE u == call[c].token.sub
<1>1. /\ UNCHANGED <<accounts, loggedOut>> /\ faults' \in 0..MaxFaults
      /\ call[c].op = "refresh" /\ call[c].pc = "find"
      /\ call \in [Call -> Handler] /\ InOrder(c)
      /\ u \in User
    BY FaultsBounded DEF FindForRefresh, AuthInv, AuthTypeOK, InOrder, RefreshToken
<1>2. CASE ~Exists(u) \/ accounts[u].hash = NoToken
    BY <1>1, <1>2, AnswerStep DEF FindForRefresh, Reply
<1>3. CASE Exists(u) /\ accounts[u].hash # NoToken
  <2> DEFINE n == [call[c] EXCEPT !.user = u, !.pc = "persist"]
  <2>1. Matches(call[c].token, accounts[u].hash)
    BY <1>1, <1>3 DEF AuthInv, HashOwned, Matches
  <2>2. call' = [call EXCEPT ![c].user = u, ![c].pc = "persist"]
    BY <1>3, <2>1 DEF FindForRefresh
  <2>3. /\ n \in Handler /\ n.op = "refresh" /\ n.pc = "persist" /\ n.user = u
        /\ n.reply = call[c].reply
    BY <1>1 DEF Handler
  <2>4. call' = [call EXCEPT ![c] = n]
    BY <1>1, <2>2
  <2>5. accounts[u] # NoAccount
    BY <1>3 DEF Exists
  <2> HIDE DEF n
  <2>6. QED BY <1>1, <2>3, <2>4, <2>5, CallStep DEF InOrder
<1>4. QED BY <1>2, <1>3

LEMMA DatabaseFailsStep ==
    ASSUME AuthInv, NEW c \in Call, DatabaseFails(c)
    PROVE  AuthInv' /\ CallsKept
<1>1. /\ UNCHANGED <<accounts, loggedOut>> /\ faults' \in 0..MaxFaults
      /\ call[c].pc \notin {"new", "ended"}
    BY FaultsBounded DEF DatabaseFails
<1>2. CASE call[c].op = "logout"
    BY <1>1, <1>2, AnswerStep DEF DatabaseFails, Reply
<1>3. CASE call[c].op # "logout"
    BY <1>1, <1>3, AnswerStep DEF DatabaseFails, Reply
<1>4. QED BY <1>2, <1>3

-----------------------------------------------------------------------------
(* The calls that write.                                                   *)

(* A row is inserted under an id no row ever had, so no token names it.    *)
LEMMA InsertStep ==
    ASSUME AuthInv, NEW c \in Call, Insert(c)
    PROVE  AuthInv' /\ CallsKept
<1> USE DEF AuthInv
<1>1. /\ UNCHANGED loggedOut /\ faults' \in 0..MaxFaults
      /\ call[c].pc = "insert" /\ call[c].op \in {"register", "create"}
      /\ call[c] \in Handler /\ InOrder(c)
    BY FaultsBounded DEF Insert, AuthTypeOK, InOrder
<1>2. CASE EmailTaken(call[c].email)
    BY <1>1, <1>2, AnswerStep DEF Insert, Reply
<1>3. CASE ~EmailTaken(call[c].email)
  <2> DEFINE n == IF call[c].op = "create"
                  THEN [call[c] EXCEPT !.pc = "ended", !.reply = "ok"]
                  ELSE [call[c] EXCEPT !.pc = "persist", !.user = FreshId]
             row == [email |-> call[c].email, hash |-> NoToken]
  <2>1. FreshId \in User /\ accounts[FreshId] = NoAccount
    BY <1>3 DEF Insert, FreshId, FreshIds
  <2>2. call' = [call EXCEPT ![c] = n]
    <3>1. CASE call[c].op = "create"
      BY <1>1, <1>3, <3>1 DEF Insert, Answer
    <3>2. CASE call[c].op # "create"
      BY <1>1, <1>3, <3>2 DEF Insert, AuthTypeOK
    <3>3. QED BY <3>1, <3>2
  <2>3. /\ n \in Handler /\ n.op = call[c].op /\ n.email = call[c].email
        /\ n.op = "create" => n.pc = "ended"
        /\ n.op = "register" => n.pc = "persist" /\ n.user = FreshId /\ n.reply = "none"
    BY <1>1, <2>1 DEF Handler, Reply, InOrder
  <2> HIDE DEF n
  <2>4. /\ call' \in [Call -> Handler] /\ call'[c] = n
        /\ \A d \in Call : d # c => call'[d] = call[d]
    BY <2>2, <2>3 DEF AuthTypeOK
  <2>5. row \in Account /\ row.email = call[c].email /\ row.hash = NoToken
        /\ row \notin {NoAccount, Removed}
    BY <1>1, AccountAssumption DEF Handler, Account
  <2> HIDE DEF row
  <2>6. accounts' = [accounts EXCEPT ![FreshId] = row]
    BY <1>3 DEF Insert, row
  <2>7. /\ accounts' \in [User -> Account \cup {NoAccount, Removed}]
        /\ accounts'[FreshId] = row
        /\ \A u \in User : u # FreshId => accounts'[u] = accounts[u]
    BY <2>1, <2>5, <2>6 DEF AuthTypeOK
  <2> HIDE DEF FreshId
  <2>8. AuthTypeOK'
    BY <1>1, <2>4, <2>7 DEF AuthTypeOK
  <2>9. \A d \in Call : InOrder(d)'
    BY <1>1, <2>1, <2>3, <2>4, <2>5, <2>7 DEF InOrder, Signed, RefreshToken
  <2>10. HashOwned'
    BY <2>5, <2>7 DEF HashOwned, Exists
  <2>11. AddressesUnique'
    BY <1>3, <2>1, <2>5, <2>7 DEF AddressesUnique, Stored, Exists, EmailTaken
  <2>12. Registered'
    <3>1. \A v \in User : accounts[v] # NoAccount => v # FreshId /\ accounts'[v] = accounts[v]
      BY <2>1, <2>7
    <3>2. \A d \in Call : call[d].op = "update" => call'[d] = call[d]
      BY <1>1, <2>4
    <3>3. \A d \in Call, v \in User : RowOf(d, v) /\ d # c => RowOf(d, v)'
      <4>1. TAKE d \in Call, v \in User
      <4>2. SUFFICES ASSUME RowOf(d, v), d # c PROVE RowOf(d, v)'
        OBVIOUS
      <4>3. accounts[v] # NoAccount /\ accounts'[v] = accounts[v] /\ call'[d] = call[d]
        BY <2>4, <3>1, <4>2, AccountAssumption DEF RowOf, Exists
      <4>4. QED BY <3>2, <4>2, <4>3 DEF RowOf, Exists
    <3>4. \A v \in User : v = FreshId /\ call[c].op = "register" => RowOf(c, v)'
      BY <2>3, <2>4, <2>5, <2>7 DEF RowOf, Exists
    <3>5. ASSUME NEW d \in Call, call'[d].op = "register"
          PROVE  (/\ call[d].pc = "persist" => RowOf(d, call[d].user)
                  /\ call[d].reply = "ok" => RowOf(d, call[d].token.sub))'
      <4>1. CASE d = c
        BY <2>1, <2>3, <2>4, <3>4, <3>5, <4>1
      <4>2. CASE d # c
        <5>1. call'[d] = call[d] /\ InOrder(d)
          BY <2>4, <4>2
        <5>2. call[d].pc = "persist" => call[d].user \in User
          BY <5>1 DEF InOrder
        <5>3. call[d].reply = "ok" => call[d].token.sub \in User
          BY <3>5, <5>1 DEF InOrder, Signed, RefreshToken
        <5>4. QED BY <3>3, <3>5, <4>2, <5>1, <5>2, <5>3 DEF Registered
      <4>3. QED BY <4>1, <4>2
    <3>6. QED BY <3>5 DEF Registered
  <2>13. OnlyLogoutEndsSessions'
    BY <1>1, <2>1, <2>3, <2>4, <2>7
    DEF OnlyLogoutEndsSessions, Exists, InOrder, Signed, RefreshToken
  <2>14. CallsKept
    BY <1>1, <2>3, <2>4 DEF CallsKept, RefreshOf, Signed
  <2>15. QED BY <2>8, <2>9, <2>10, <2>11, <2>12, <2>13, <2>14
<1>4. QED BY <1>2, <1>3

(* The new hash is the hash of a token of its row, and no longer missing.  *)
LEMMA PersistStep ==
    ASSUME AuthInv, NEW c \in Call, Persist(c)
    PROVE  AuthInv' /\ CallsKept
<1> USE DEF AuthInv
<1> DEFINE u == call[c].user
           token == [sub |-> u, by |-> c]
           n == [call[c] EXCEPT !.pc = "ended", !.reply = "ok", !.token = token]
<1>1. /\ faults' \in 0..MaxFaults /\ loggedOut' = loggedOut \ {u}
      /\ call[c].pc = "persist" /\ call[c].op \in {"register", "login", "refresh"}
      /\ u \in User /\ accounts[u] # NoAccount /\ call[c] \in Handler
    BY FaultsBounded DEF Persist, AuthTypeOK, InOrder
<1>2. token \in RefreshToken /\ token.sub = u /\ token # NoToken
    BY <1>1, NoTokenAssumption DEF RefreshToken
<1>3. accounts' = IF Exists(u) THEN [accounts EXCEPT ![u].hash = token] ELSE accounts
    BY DEF Persist
<1>4. call' = [call EXCEPT ![c] = n]
    BY <1>1 DEF Persist, AuthTypeOK
<1> HIDE DEF token
<1>5. /\ n \in Handler /\ n.op = call[c].op /\ n.pc = "ended" /\ n.reply = "ok"
      /\ n.token = token /\ n.email = call[c].email
    BY <1>1, <1>2 DEF Handler, Reply
<1> HIDE DEF n
<1>6. /\ call' \in [Call -> Handler] /\ call'[c] = n
      /\ \A d \in Call : d # c => call'[d] = call[d]
    BY <1>4, <1>5 DEF AuthTypeOK
<1>7. Exists(u) =>
          /\ accounts[u] \in Account
          /\ [accounts[u] EXCEPT !.hash = token] \in Account
          /\ [accounts[u] EXCEPT !.hash = token].email = accounts[u].email
          /\ [accounts[u] EXCEPT !.hash = token].hash = token
    BY <1>1, <1>2 DEF AuthTypeOK, Exists, Account
<1>8. /\ accounts' \in [User -> Account \cup {NoAccount, Removed}]
      /\ \A v \in User : v # u \/ ~Exists(u) => accounts'[v] = accounts[v]
      /\ Exists(u) => /\ accounts'[u] \in Account
                      /\ accounts'[u].email = accounts[u].email
                      /\ accounts'[u].hash = token
    BY <1>1, <1>3, <1>7 DEF AuthTypeOK
<1> HIDE DEF u
<1>9. \A v \in User : /\ Exists(v)' <=> Exists(v)
                      /\ Exists(v) => accounts'[v].email = accounts[v].email
                      /\ accounts[v] = NoAccount <=> accounts'[v] = NoAccount
                      /\ accounts[v] = Removed => accounts'[v] = Removed
    BY <1>1, <1>8, AccountAssumption DEF Exists
<1>10. AuthTypeOK'
    BY <1>1, <1>6, <1>8 DEF AuthTypeOK
<1>11. \A d \in Call : InOrder(d)'
    BY <1>1, <1>2, <1>5, <1>6, <1>9 DEF InOrder, Signed, RefreshToken
<1>12. HashOwned'
    BY <1>2, <1>8, <1>9 DEF HashOwned, Exists
<1>13. AddressesUnique'
    BY <1>9 DEF AddressesUnique, Stored
<1>14. Registered'
  <2>1. \A d \in Call, v \in User : RowOf(d, v) => RowOf(d, v)'
    BY <1>1, <1>5, <1>6, <1>9 DEF RowOf
  <2>2. QED BY <1>1, <1>2, <1>5, <1>6, <2>1 DEF Registered, InOrder, Signed, RefreshToken, u
<1>15. OnlyLogoutEndsSessions'
    BY <1>1, <1>2, <1>5, <1>6, <1>8, <1>9
    DEF OnlyLogoutEndsSessions, InOrder, Signed, RefreshToken, Exists
<1>16. CallsKept
    BY <1>1, <1>2, <1>5, <1>6 DEF CallsKept, RefreshOf, Signed, u
<1>17. QED BY <1>10, <1>11, <1>12, <1>13, <1>14, <1>15, <1>16

(* Only a logout clears a hash, and it says whose.                         *)
LEMMA ClearStep ==
    ASSUME AuthInv, NEW c \in Call, Clear(c)
    PROVE  AuthInv' /\ CallsKept
<1> USE DEF AuthInv
<1> DEFINE u == call[c].token.sub
           n == [call[c] EXCEPT !.pc = "ended", !.reply = "ok"]
<1>1. /\ faults' \in 0..MaxFaults /\ call[c].pc = "clear" /\ call[c].op = "logout"
      /\ loggedOut' = loggedOut \cup {u}
      /\ u \in User /\ call[c] \in Handler
    BY FaultsBounded DEF Clear, AuthTypeOK, InOrder, RefreshToken
<1>2. accounts' = IF Exists(u) THEN [accounts EXCEPT ![u].hash = NoToken] ELSE accounts
    BY DEF Clear
<1>3. call' = [call EXCEPT ![c] = n]
    BY <1>1 DEF Clear, Answer
<1>4. n \in Handler /\ n.op = "logout" /\ n.pc = "ended"
    BY <1>1 DEF Handler, Reply
<1> HIDE DEF n
<1>5. /\ call' \in [Call -> Handler] /\ call'[c] = n
      /\ \A d \in Call : d # c => call'[d] = call[d]
    BY <1>3, <1>4 DEF AuthTypeOK
<1>6. Exists(u) =>
          /\ accounts[u] \in Account
          /\ [accounts[u] EXCEPT !.hash = NoToken] \in Account
          /\ [accounts[u] EXCEPT !.hash = NoToken].email = accounts[u].email
          /\ [accounts[u] EXCEPT !.hash = NoToken].hash = NoToken
    BY <1>1 DEF AuthTypeOK, Exists, Account
<1>7. /\ accounts' \in [User -> Account \cup {NoAccount, Removed}]
      /\ \A v \in User : v # u \/ ~Exists(u) => accounts'[v] = accounts[v]
      /\ Exists(u) => /\ accounts'[u] \in Account
                      /\ accounts'[u].email = accounts[u].email
                      /\ accounts'[u].hash = NoToken
    BY <1>1, <1>2, <1>6 DEF AuthTypeOK
<1> HIDE DEF u
<1>8. \A v \in User : /\ Exists(v)' <=> Exists(v)
                      /\ Exists(v) => accounts'[v].email = accounts[v].email
                      /\ accounts[v] = NoAccount <=> accounts'[v] = NoAccount
                      /\ accounts[v] = Removed => accounts'[v] = Removed
    BY <1>1, <1>7, AccountAssumption DEF Exists
<1>9. AuthTypeOK'
    BY <1>1, <1>5, <1>7 DEF AuthTypeOK
<1>10. \A d \in Call : InOrder(d)'
    BY <1>1, <1>4, <1>5, <1>8 DEF InOrder, Signed, RefreshToken
<1>11. HashOwned'
    BY <1>7, <1>8 DEF HashOwned, Exists
<1>12. AddressesUnique'
    BY <1>8 DEF AddressesUnique, Stored
<1>13. Registered'
  <2>1. \A d \in Call, v \in User : RowOf(d, v) /\ d # c => RowOf(d, v)'
    BY <1>1, <1>5, <1>8 DEF RowOf
  <2>2. QED BY <1>1, <1>4, <1>5, <2>1 DEF Registered, InOrder, Signed, RefreshToken
<1>14. OnlyLogoutEndsSessions'
    BY <1>1, <1>4, <1>5, <1>7, <1>8
    DEF OnlyLogoutEndsSessions, InOrder, Signed, RefreshToken, Exists
<1>15. CallsKept
    BY <1>1, <1>4, <1>5 DEF CallsKept, RefreshOf, Signed
<1>16. QED BY <1>9, <1>10, <1>11, <1>12, <1>13, <1>14, <1>15

(* A row gets an address no other row has, and keeps its hash; whoever was *)
(* registered under it now has an update to show for the change.           *)
LEMMA UpdateUserStep ==
    ASSUME AuthInv, NEW c \in Call, UpdateUser(c)
    PROVE  AuthInv' /\ CallsKept
<1> USE DEF AuthInv
<1> DEFINE u == call[c].user
           n == [call[c] EXCEPT !.pc = "find"]
<1>1. /\ UNCHANGED loggedOut /\ faults' \in 0..MaxFaults /\ call[c].op = "update"
      /\ u \in User /\ call[c] \in Handler /\ call[c].pc \in {"update", "find"}
    BY FaultsBounded DEF UpdateUser, AuthTypeOK, InOrder
<1>2. ASSUME UNCHANGED accounts, NEW reply \in {"ok", "error", "notFound"}, Answer(c, reply)
      PROVE  AuthInv' /\ CallsKept
    BY <1>1, <1>2, AnswerStep DEF Reply
<1>3. ASSUME UNCHANGED accounts, Goto(c, "find") PROVE AuthInv' /\ CallsKept
    BY <1>1, <1>3, GotoStep
<1>4. ASSUME Exists(u), Goto(c, "find"),
             accounts' = [accounts EXCEPT ![u].email = call[c].email],
             ~ \E v \in Stored \ {u} : Exists(u) /\ accounts[v].email = call[c].email
      PROVE  AuthInv' /\ CallsKept
  <2>1. call' = [call EXCEPT ![c] = n]
    BY <1>4 DEF Goto
  <2>2. /\ n \in Handler /\ n.op = "update" /\ n.pc = "find" /\ n.user = u
        /\ n.reply = "none"
    BY <1>1 DEF Handler, InOrder
  <2> HIDE DEF n
  <2>3. /\ call' \in [Call -> Handler] /\ call'[c] = n
        /\ \A d \in Call : d # c => call'[d] = call[d]
    BY <2>1, <2>2 DEF AuthTypeOK
  <2> DEFINE row == [accounts[u] EXCEPT !.email = call[c].email]
  <2>4. /\ accounts[u] \in Account /\ row \in Account
        /\ row.email = call[c].email /\ row.hash = accounts[u].hash
    BY <1>1, <1>4 DEF AuthTypeOK, Exists, Account, Handler
  <2>5. accounts' = [accounts EXCEPT ![u] = row]
    BY <1>4
  <2> HIDE DEF row
  <2>6. /\ accounts' \in [User -> Account \cup {NoAccount, Removed}]
        /\ accounts'[u] = row
        /\ \A v \in User : v # u => accounts'[v] = accounts[v]
    BY <1>1, <2>4, <2>5 DEF AuthTypeOK
  <2> HIDE DEF u
  <2>7. \A v \in User : /\ Exists(v)' <=> Exists(v)
                        /\ Exists(v) => accounts'[v].hash = accounts[v].hash
                        /\ accounts[v] = NoAccount <=> accounts'[v] = NoAccount
                        /\ accounts[v] = Removed => accounts'[v] = Removed
    BY <1>4, <2>4, <2>6, AccountAssumption DEF Exists
  <2>8. AuthTypeOK'
    BY <1>1, <2>3, <2>6 DEF AuthTypeOK
  <2>9. \A d \in Call : InOrder(d)'
    BY <1>1, <2>2, <2>3, <2>7 DEF InOrder, Signed, RefreshToken
  <2>10. HashOwned'
    BY <2>7 DEF HashOwned
  <2>11. AddressesUnique'
    BY <1>4, <2>4, <2>6, <2>7 DEF AddressesUnique, Stored
  <2>12. Registered'
    <3>1. \A d \in Call : call[d].op = "update" =>
              call'[d].op = "update" /\ call'[d].user = call[d].user
      BY <2>2, <2>3 DEF u
    <3>2. \A d \in Call, v \in User : RowOf(d, v) /\ d # c => RowOf(d, v)'
      <4>1. TAKE d \in Call, v \in User
      <4>2. SUFFICES ASSUME RowOf(d, v), d # c PROVE RowOf(d, v)'
        OBVIOUS
      <4>3. CASE v = u
        <5>1. call'[c].op = "update" /\ call'[c].user = v
          BY <2>2, <2>3, <4>3
        <5>2. QED BY <1>4, <2>7, <4>3, <5>1 DEF RowOf
      <4>4. CASE v # u
        BY <2>3, <2>6, <2>7, <3>1, <4>2, <4>4 DEF RowOf
      <4>5. QED BY <4>3, <4>4
    <3>3. QED BY <1>1, <2>2, <2>3, <3>2 DEF Registered, InOrder, Signed, RefreshToken
  <2>13. OnlyLogoutEndsSessions'
    BY <1>1, <2>2, <2>3, <2>7 DEF OnlyLogoutEndsSessions, InOrder, Signed, RefreshToken
  <2>14. CallsKept
    BY <1>1, <2>2, <2>3 DEF CallsKept, RefreshOf, Signed
  <2>15. QED BY <2>8, <2>9, <2>10, <2>11, <2>12, <2>13, <2>14
<1>5. QED BY <1>2, <1>3, <1>4 DEF UpdateUser

(* A removed row was there, and its id is not used again.                  *)
LEMMA RemoveUserStep ==
    ASSUME AuthInv, NEW c \in Call, RemoveUser(c)
    PROVE  AuthInv' /\ CallsKept
<1> USE DEF AuthInv
<1> DEFINE u == call[c].user
           n == [call[c] EXCEPT !.pc = "ended", !.reply = "ok"]
<1>1. /\ UNCHANGED loggedOut /\ faults' \in 0..MaxFaults /\ call[c].op = "remove"
      /\ u \in User /\ call[c] \in Handler /\ call[c].pc \in {"find", "delete"}
    BY FaultsBounded DEF RemoveUser, AuthTypeOK, InOrder
<1>2. ASSUME UNCHANGED accounts, NEW reply \in {"ok", "notFound"}, Answer(c, reply)
      PROVE  AuthInv' /\ CallsKept
    BY <1>1, <1>2, AnswerStep DEF Reply
<1>3. ASSUME UNCHANGED accounts, Goto(c, "delete") PROVE AuthInv' /\ CallsKept
    BY <1>1, <1>3, GotoStep
<1>4. ASSUME Exists(u), Answer(c, "ok"), accounts' = [accounts EXCEPT ![u] = Removed]
      PROVE  AuthInv' /\ CallsKept
  <2>1. call' = [call EXCEPT ![c] = n]
    BY <1>4 DEF Answer
  <2>2. n \in Handler /\ n.op = "remove" /\ n.pc = "ended" /\ n.user = u
    BY <1>1 DEF Handler, Reply
  <2> HIDE DEF n
  <2>3. /\ call' \in [Call -> Handler] /\ call'[c] = n
        /\ \A d \in Call : d # c => call'[d] = call[d]
    BY <2>1, <2>2 DEF AuthTypeOK
  <2>4. /\ accounts' \in [User -> Account \cup {NoAccount, Removed}]
        /\ accounts'[u] = Removed
        /\ \A v \in User : v # u => accounts'[v] = accounts[v]
    BY <1>1, <1>4 DEF AuthTypeOK
  <2> HIDE DEF u
  <2>5. \A v \in User : /\ Exists(v)' => Exists(v) /\ accounts'[v] = accounts[v]
                        /\ accounts[v] # NoAccount => accounts'[v] # NoAccount
                        /\ Exists(v) => accounts'[v] = accounts[v] \/ accounts'[v] = Removed
                        /\ accounts[v] = Removed => accounts'[v] = Removed
    BY <1>4, <2>4, AccountAssumption DEF Exists
  <2>6. AuthTypeOK'
    BY <1>1, <2>3, <2>4 DEF AuthTypeOK
  <2>7. \A d \in Call : InOrder(d)'
    BY <1>1, <2>2, <2>3, <2>5 DEF InOrder, Signed, RefreshToken
  <2>8. HashOwned'
    BY <2>5 DEF HashOwned
  <2>9. AddressesUnique'
    BY <2>5 DEF AddressesUnique, Stored
  <2>10. Registered'
    <3>1. \A d \in Call : call[d].op = "update" => call'[d] = call[d]
      BY <1>1, <2>3
    <3>2. \A d \in Call, v \in User : RowOf(d, v) /\ d # c => RowOf(d, v)'
      <4>1. TAKE d \in Call, v \in User
      <4>2. SUFFICES ASSUME RowOf(d, v), d # c, accounts'[v] # Removed PROVE RowOf(d, v)'
        BY DEF RowOf
      <4>3. Exists(v) /\ accounts'[v] = accounts[v] /\ call'[d] = call[d]
        BY <2>3, <2>5, <4>2 DEF RowOf
      <4>4. QED BY <3>1, <4>2, <4>3 DEF RowOf, Exists
    <3>3. QED BY <1>1, <2>2, <2>3, <3>2 DEF Registered, InOrder, Signed, RefreshToken
  <2>11. OnlyLogoutEndsSessions'
    BY <1>1, <2>2, <2>3, <2>5 DEF OnlyLogoutEndsSessions, InOrder, Signed, RefreshToken
  <2>12. CallsKept
    BY <1>1, <2>2, <2>3 DEF CallsKept, RefreshOf, Signed
  <2>13. QED BY <2>6, <2>7, <2>8, <2>9, <2>10, <2>11, <2>12
<1>5. QED BY <1>2, <1>3, <1>4 DEF RemoveUser

-----------------------------------------------------------------------------
(* Every step of auth-service keeps the invariant.                         *)
LEMMA AuthStep ==
    ASSUME AuthInv, AuthNext
    PROVE  AuthInv' /\ CallsKept
    BY ExpiredStep, FindForRegisterStep, FindForLoginStep, FindForRefreshStep,
       DatabaseFailsStep, InsertStep, PersistStep, ClearStep, UpdateUserStep, RemoveUserStep
    DEF AuthNext, Handle
=============================================================================
