----------------------------- MODULE AuthService -----------------------------
(***************************************************************************)
(* apps/auth: registration, login, refresh and logout, and the user        *)
(* operations that share the table.  A handler reads the row, hashes, and  *)
(* writes in separate calls, so handlers interleave at each await.  There  *)
(* is one refreshTokenHash per user, whatever the number of devices.       *)
(***************************************************************************)
EXTENDS Naturals, FiniteSets

CONSTANTS
    User,        \* user ids
    Email,       \* addresses
    Call,        \* the RPC calls of a behaviour, each used once
    NoAccount,   \* no row was ever stored under this id
    Removed,     \* the row was deleted
    NoToken,     \* no refresh token, no hash
    NoUser,      \* no user
    MaxFaults    \* bound on failed calls and crashes

(* A refresh token is told apart by the call that signed it.               *)
RefreshToken == [sub : User, by : Call]

(* entity User; hash stands for refreshTokenHash and is the token it was   *)
(* computed from.                                                          *)
Account == [email : Email, hash : RefreshToken \cup {NoToken}]

ASSUME AccountAssumption ==
    /\ NoAccount # Removed
    /\ NoAccount \notin Account
    /\ Removed \notin Account
ASSUME EmailAssumption == Email # {}
ASSUME NoTokenAssumption == NoToken \notin RefreshToken
ASSUME NoUserAssumption == NoUser \notin User
ASSUME AuthFaultsAssumption == MaxFaults \in Nat

VARIABLES
    accounts,    \* accounts[u]: the row of u in table users
    call,        \* call[c]: the progress of the handler of call c
    loggedOut,   \* users whose hash a logout has cleared since they last authenticated
    faults       \* failures so far

authVars == <<accounts, call, loggedOut, faults>>

Reply == {"none", "ok", "unauthorized", "conflict", "notFound", "error"}

AuthOp == {"register", "login", "refresh", "logout"}

UsersOp == {"create", "update", "remove"}

(* pc: the database call the handler makes next.  user: whose row it works *)
(* on.  email: from the payload.  token: from the payload, and in the end  *)
(* the one it answers with.                                                *)
Handler ==
    [op : AuthOp \cup UsersOp \cup {"none"},
     pc : {"new", "find", "insert", "persist", "clear", "update", "delete", "ended"},
     user : User \cup {NoUser}, email : Email,
     token : RefreshToken \cup {NoToken}, reply : Reply]

NewCall ==
    [op |-> "none", pc |-> "new", user |-> NoUser, email |-> CHOOSE e \in Email : TRUE,
     token |-> NoToken, reply |-> "none"]

Exists(u) == accounts[u] \notin {NoAccount, Removed}

Stored == {u \in User : Exists(u)}

(* PrimaryGeneratedColumn('uuid'): an id no row ever had.                  *)
FreshIds == {u \in User : accounts[u] = NoAccount}
FreshId == CHOOSE u \in FreshIds : TRUE

EmailTaken(e) == \E u \in Stored : accounts[u].email = e

AuthTypeOK ==
    /\ accounts \in [User -> Account \cup {NoAccount, Removed}]
    /\ call \in [Call -> Handler]
    /\ loggedOut \subseteq User
    /\ faults \in 0..MaxFaults

AuthInit ==
    /\ accounts = [u \in User |-> NoAccount]
    /\ call = [c \in Call |-> NewCall]
    /\ loggedOut = {}
    /\ faults = 0

Fault == faults < MaxFaults /\ faults' = faults + 1
NoFault == UNCHANGED faults

Goto(c, pc) == call' = [call EXCEPT ![c].pc = pc]

(* The handler returns or throws; payloads matter only when it succeeded.  *)
Answer(c, reply) ==
    call' = [call EXCEPT ![c] =
        IF reply = "ok"
        THEN [@ EXCEPT !.pc = "ended", !.reply = reply]
        ELSE [NewCall EXCEPT !.op = call[c].op, !.user = call[c].user, !.pc = "ended",
                             !.reply = reply]]

(* Mutant: the whole token is compared.                                    *)
MatchesExactly(token, hash) == token = hash

(* bcrypt.compare looks at the first 72 bytes only: the header of the JWT  *)
(* and the beginning of its payload, which names the subject.              *)
Matches(token, hash) == token.sub = hash.sub
-----------------------------------------------------------------------------
(* AuthController and UsersController: a call arrives.                     *)
Start(c, op, u, e, t) ==
    /\ c \in Call /\ call[c].pc = "new"
    /\ call' = [call EXCEPT ![c] =
          [NewCall EXCEPT !.op = op, !.user = u, !.email = e, !.token = t,
              !.pc = CASE op \in {"register", "login", "refresh", "remove"} -> "find"
                       [] op = "logout" -> "clear"
                       [] op = "create" -> "insert"
                       [] op = "update" -> "update"]]
    /\ UNCHANGED <<accounts, loggedOut, faults>>

(* verifyRefreshToken: the token's signature has outlived its expiry.      *)
RefreshTokenExpired(c) ==
    /\ \/ call[c].op = "refresh" /\ call[c].pc = "find" /\ Answer(c, "unauthorized")
       \/ call[c].op = "logout" /\ call[c].pc = "clear" /\ Answer(c, "ok")
    /\ Fault
    /\ UNCHANGED <<accounts, loggedOut>>

(* register: is the address known?                                         *)
FindForRegister(c) ==
    /\ call[c].op = "register" /\ call[c].pc = "find"
    /\ IF EmailTaken(call[c].email) THEN Answer(c, "conflict") ELSE Goto(c, "insert")
    /\ UNCHANGED <<accounts, loggedOut, faults>>

(* login: the row of the address, and whether the password is its own.     *)
FindForLogin(c) ==
    /\ call[c].op = "login" /\ call[c].pc = "find"
    /\ \/ Answer(c, "unauthorized")
       \/ \E u \in Stored :
              /\ accounts[u].email = call[c].email
              /\ call' = [call EXCEPT ![c].pc = "persist", ![c].user = u]
    /\ UNCHANGED <<accounts, loggedOut, faults>>

(* refresh: the row of the subject holds a hash that the token matches.    *)
FindForRefresh(c) ==
    LET u == call[c].token.sub
    IN  /\ call[c].op = "refresh" /\ call[c].pc = "find"
        /\ IF ~Exists(u) \/ accounts[u].hash = NoToken
           THEN Answer(c, "unauthorized")
           ELSE call' = [call EXCEPT ![c].user = u, ![c].pc =
                    IF Matches(call[c].token, accounts[u].hash) THEN "persist" ELSE "clear"]
        /\ UNCHANGED <<accounts, loggedOut, faults>>

(* Mutant: the table has no unique index on the address.                   *)
InsertDuplicate(c) ==
    /\ call[c].pc = "insert" /\ FreshIds # {}
    /\ accounts' = [accounts EXCEPT ![FreshId] =
          [email |-> call[c].email, hash |-> NoToken]]
    /\ IF call[c].op = "create" THEN Answer(c, "ok")
       ELSE call' = [call EXCEPT ![c].pc = "persist", ![c].user = FreshId]
    /\ UNCHANGED <<loggedOut, faults>>

(* users.save in register and create: a fresh id, and a unique address.    *)
Insert(c) ==
    /\ call[c].pc = "insert"
    /\ IF EmailTaken(call[c].email)
       THEN Answer(c, "error") /\ UNCHANGED accounts
       ELSE /\ FreshIds # {}
            /\ accounts' = [accounts EXCEPT ![FreshId] =
                  [email |-> call[c].email, hash |-> NoToken]]
            /\ IF call[c].op = "create" THEN Answer(c, "ok")
               ELSE call' = [call EXCEPT ![c].pc = "persist", ![c].user = FreshId]
    /\ UNCHANGED <<loggedOut, faults>>

(* Mutant: the hash is written with save, which inserts a row that is gone. *)
PersistSaves(c) ==
    LET u == call[c].user
        token == [sub |-> u, by |-> c]
    IN  /\ call[c].pc = "persist"
        /\ accounts' = IF Exists(u) THEN [accounts EXCEPT ![u].hash = token]
                       ELSE [accounts EXCEPT ![u] = [email |-> NoUser, hash |-> token]]
        /\ loggedOut' = loggedOut \ {u}
        /\ call' = [call EXCEPT ![c].pc = "ended", ![c].reply = "ok", ![c].token = token]
        /\ UNCHANGED faults

(* createTokens and persistRefreshToken: the new hash replaces whatever is *)
(* there, and updates nothing when the row has gone.                       *)
Persist(c) ==
    LET u == call[c].user
        token == [sub |-> u, by |-> c]
    IN  /\ call[c].pc = "persist"
        /\ accounts' = IF Exists(u) THEN [accounts EXCEPT ![u].hash = token] ELSE accounts
        /\ loggedOut' = loggedOut \ {u}
        /\ call' = [call EXCEPT ![c].pc = "ended", ![c].reply = "ok", ![c].token = token]
        /\ UNCHANGED faults

(* clearRefreshToken, for a logout or for a token that does not match.     *)
Clear(c) ==
    LET u == call[c].token.sub
    IN  /\ call[c].pc = "clear"
        /\ accounts' = IF Exists(u) THEN [accounts EXCEPT ![u].hash = NoToken] ELSE accounts
        /\ IF call[c].op = "logout"
           THEN Answer(c, "ok") /\ loggedOut' = loggedOut \cup {u}
           ELSE Answer(c, "unauthorized") /\ UNCHANGED loggedOut
        /\ UNCHANGED faults

(* UsersService.update: an address another row holds is refused, a missing *)
(* row is noticed by the findById that follows.                            *)
UpdateUser(c) ==
    LET u == call[c].user
    IN  /\ call[c].op = "update"
        /\ \/ /\ call[c].pc = "update"
              /\ IF \E v \in Stored \ {u} : Exists(u) /\ accounts[v].email = call[c].email
                 THEN Answer(c, "error") /\ UNCHANGED accounts
                 ELSE /\ Goto(c, "find")
                      /\ accounts' = IF Exists(u)
                                     THEN [accounts EXCEPT ![u].email = call[c].email]
                                     ELSE accounts
           \/ /\ call[c].pc = "find"
              /\ Answer(c, IF Exists(u) THEN "ok" ELSE "notFound")
              /\ UNCHANGED accounts
        /\ UNCHANGED <<loggedOut, faults>>

(* UsersService.remove: findEntityById, then the DELETE.                   *)
RemoveUser(c) ==
    LET u == call[c].user
    IN  /\ call[c].op = "remove"
        /\ \/ /\ call[c].pc = "find"
              /\ IF Exists(u) THEN Goto(c, "delete") ELSE Answer(c, "notFound")
              /\ UNCHANGED accounts
           \/ /\ call[c].pc = "delete"
              /\ Answer(c, "ok")
              /\ accounts' = IF Exists(u) THEN [accounts EXCEPT ![u] = Removed] ELSE accounts
        /\ UNCHANGED <<loggedOut, faults>>

(* A database call fails, or the process dies: the caller gets an error,   *)
(* which a logout swallows.                                                *)
DatabaseFails(c) ==
    /\ call[c].pc \notin {"new", "ended"}
    /\ Answer(c, IF call[c].op = "logout" THEN "ok" ELSE "error")
    /\ Fault
    /\ UNCHANGED <<accounts, loggedOut>>

Handle(c) ==
    \/ FindForRegister(c)
    \/ FindForLogin(c)
    \/ FindForRefresh(c)
    \/ Insert(c)
    \/ Persist(c)
    \/ Clear(c)
    \/ UpdateUser(c)
    \/ RemoveUser(c)

AuthNext ==
    \E c \in Call :
        \/ Handle(c)
        \/ RefreshTokenExpired(c)
        \/ DatabaseFails(c)
-----------------------------------------------------------------------------
(* Only a logout ends a session: a user who was given a refresh token and  *)
(* whose row is still there keeps a hash, whatever refreshes, logins and   *)
(* failures of other devices did to the one column (auth.service.ts:94).   *)
OnlyLogoutEndsSessions ==
    \A c \in Call :
        LET u == call[c].token.sub
        IN  /\ call[c].pc = "ended" /\ call[c].reply = "ok"
            /\ call[c].op \in {"register", "login", "refresh"}
            /\ Exists(u) /\ accounts[u].hash = NoToken
            => u \in loggedOut

(* Of the registrations of one address that race past the check, the table *)
(* keeps one: two rows never share an address, and a registration that was *)
(* answered with tokens has its row, under its address unless an update of *)
(* that user changed it (auth.service.ts:34).                              *)
RegisteredOnce ==
    /\ \A u, v \in Stored : accounts[u].email = accounts[v].email => u = v
    /\ \A c \in Call :
           call[c].op = "register" /\ call[c].reply = "ok" =>
               LET u == call[c].token.sub
               IN  \/ accounts[u] = Removed
                   \/ /\ Exists(u)
                      /\ \/ accounts[u].email = call[c].email
                         \/ \E d \in Call : call[d].op = "update" /\ call[d].user = u
=============================================================================
