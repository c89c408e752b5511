----------------------------- MODULE RequestPath -----------------------------
(***************************************************************************)
(* An HTTP request on its way: the gateway's middleware, guard, pipe and   *)
(* controller, the RPC to a service that may not be up, the service's own  *)
(* validation and its work on the database, the reply, and the answer.     *)
(*                                                                         *)
(* tasks and notifications are called over RabbitMQ, where a request waits *)
(* for a consumer and is forgotten once delivered; auth is called over     *)
(* TCP.  No call has a timeout.                                            *)
(*                                                                         *)
(* The rows of one list are followed: which one is chosen once.            *)
(***************************************************************************)
EXTENDS ServiceStartup, RequestContracts, RequestIds, ErrorMapping, FiniteSetsExt

CONSTANTS
    Slot,        \* requests that are in flight at once
    Plain,       \* well-formed requests
    Probe,       \* the requests among them that are made while services start up
    Odd,         \* any other request
    Size,        \* page sizes the walker asks for
    Column,      \* values of the column a filter of the list is about
    Filter,      \* those among them that the walker filters by
    MaxRows      \* bound on the rows created

VARIABLES
    request,     \* request[r]: the progress of the request in slot r
    list,        \* the route whose rows are followed, "none" before the choice
    rows,        \* the rows of that list, numbered in order of creation
    column,      \* column[i]: that column of the i-th row now
    created,     \* rows created so far
    present,     \* whether the task of the list exists
    walk         \* the client that reads the list page by page

dataVars == <<list, rows, column, created, present>>
vars == <<startupVars, request, dataVars, walk>>

Listed == {"findAll", "listComments", "listAuditLogs", "findNotifications"}
Row == 1..MaxRows

\* Tasks and notifications can be filtered.  One column stands for those that
\* are: the status, the priority, the texts that are searched, the assignees and
\* the due date of a task, the status of a notification.
\* Without a filter nothing reads it.
Filters(l) == {"any"} \cup (IF l \in {"findAll", "findNotifications"} THEN Filter ELSE {})
Columns(filter) == IF filter = "any" THEN {"none"} ELSE Column

(* What a client can send: any fields and any id, with a verified token.   *)
Known(i) ==
    /\ i.route \in Routes /\ i.id \in {"ok", "unknown", "bad"} /\ i.header \in Id
    /\ i.user.name \in Optional(AnyText) /\ i.user.email \in Optional(Exact)

ASSUME InputsAssumption == Probe \subseteq Plain /\ \A i \in Plain \cup Odd : Known(i)
ASSUME RowsAssumption == MaxRows \in Nat /\ Size \subseteq Nat \ {0} /\ Filter \subseteq Column

(* filter: the value the walk filters by, "any" without one; since: the    *)
(* rows the list had; disturbed: a row left the list, deleted or changed,  *)
(* or a page was not answered, on the way.                                 *)
NoWalk == [on |-> FALSE, page |-> 0, size |-> 0, seen |-> {}, since |-> {}, filter |-> "any",
           disturbed |-> FALSE]

(* stage: free, sent (in the queue or socket), handling (delivered), read  *)
(* (a page is read, its total is not), replied, answered, lost.            *)
Idle ==
    [stage |-> "free", route |-> "none", id |-> "ok", fields |-> Nothing,
     user |-> [name |-> "ok", email |-> "ok"], filter |-> "any", row |-> 0,
     page |-> 1, size |-> 10, header |-> NoId, trail |-> Nothing, walker |-> FALSE,
     data |-> {}, total |-> 0, thrown |-> 0, status |-> 0]

Serving(r) == ServiceOf(request[r].route)
InFlight(r) == request[r].stage \in {"sent", "handling", "read", "replied"}
Calm == \A s \in Service : Listening(s)
Alone == \A r \in Slot : request[r].stage = "free"

\* Which of the free slots a request takes makes no difference.
Free == {r \in Slot : request[r].stage = "free"}
NextSlot == IF Free = {} THEN {} ELSE {CHOOSE r \in Free : TRUE}

Init ==
    /\ StartupInit
    /\ request = [r \in Slot |-> Idle]
    /\ list = "none" /\ rows = {} /\ column = [i \in Row |-> "none"]
    /\ created = 0 /\ present = TRUE
    /\ walk = NoWalk

\* Every variable has its type.
TypeOK ==
    /\ StartupTypeOK
    /\ \A r \in Slot :
           /\ request[r].stage \in {"free", "sent", "handling", "read", "replied",
                                    "answered", "lost"}
           /\ request[r].data \subseteq Row
           /\ request[r].status \in HttpStatuses \cup {0}
    /\ list \in Listed \cup {"none"}
    /\ rows \subseteq 1..created /\ created \in 0..MaxRows
    /\ column \in [Row -> Column \cup {"none"}]
    /\ walk.seen \subseteq Row

-----------------------------------------------------------------------------
(* The gateway.                                                            *)

Succeeds(route) == IF route \in {"create", "createComment"} THEN 201 ELSE 200

\* What the services throw, as the gateway sees it and as it answers.
ToRpc(s, e) ==
    CASE s = "tasks" -> TasksToRpc(e)
      [] s = "notifications" -> NotificationsToRpc(e)
      [] s = "auth" -> AuthToRpc(e)

ToHttp(s, e) ==
    CASE s = "tasks" -> TasksToHttp(e)
      [] s = "notifications" -> NotificationsToHttp(e)
      [] s = "auth" -> AuthToHttp(e)

Wire(e) == [type |-> "wire", status |-> Missing, body |-> OnTheWire(e)]

\* The status of the answer to each error of a service.
ServiceErrors == {PayloadException, HttpException(404, "own"), JsError}
AnswerStatus ==
    [s \in Service \ {"gateway"} |-> [e \in ServiceErrors |->
        Filtered(ToHttp(s, Wire(ToRpc(s, e)))).statusCode]]

Refused == Filtered(OwnException(ValidationException)).statusCode
Unauthorized == Filtered(OwnException(HttpException(401, "own"))).statusCode
Unreachable == Filtered(AuthToHttp(JsError)).statusCode

Answered(q, status) == [q EXCEPT !.stage = "answered", !.status = status]

\* The ids that a request leaves behind, none in the services that are sent none.
TrailOf ==
    [route \in Routes |-> [header \in Id |->
        CASE ServiceOf(route) = "tasks" ->
                 Trail(route, CreateRecord(WithId(RequestContextMiddleware(header))))
          [] ServiceOf(route) = "notifications" ->
                 [handler |-> NotificationsHandlerContext(PlainRecord).requestId]
          [] ServiceOf(route) = "auth" -> [handler |-> AuthRpcContext.requestId]]]

\* The pipe refuses, the socket to auth refuses, or the call goes out.
Dispatch(q) ==
    CASE ~GatewayAccepts(q.route, q.id, q.fields) ->
             Answered(q, Refused)
      [] GatewayAccepts(q.route, q.id, q.fields) /\ ServiceOf(q.route) = "auth"
             /\ ~Listening("auth") ->
             Answered(q, Unreachable)
      [] OTHER -> [q EXCEPT !.stage = "sent"]

\* The requests that add a row to the list, and those that change it at all.
Adding == [none |-> {}, findAll |-> {"create"}, listComments |-> {"createComment"},
           listAuditLogs |-> {"update", "remove"}, findNotifications |-> {}]
Changing(l) ==
    CASE l = "findAll" -> {"create", "update", "remove"}
      [] l = "listComments" -> {"createComment", "remove"}
      [] l = "listAuditLogs" -> {"update", "remove"}
      [] OTHER -> {}

Adders == {r \in Slot : InFlight(r) /\ request[r].route \in Adding[list]}

\* Bounds.  Odd requests are sent one at a time, to services that are up; while a
\* service is not up there is one request at a time; during a walk only those that
\* change the list are sent, and none once a row has left it or the walk is over.
Offered ==
    CASE ~Listening("gateway") -> {}
      [] Listening("gateway") /\ ~Calm -> IF Alone THEN Probe ELSE {}
      [] Calm /\ list = "none" -> IF Alone THEN Plain \cup Odd ELSE Probe
      [] list # "none" /\ (~walk.on \/ walk.disturbed) -> {}
      [] OTHER -> {i \in Plain : /\ i.route \in Changing(list)
                                 /\ i.route \in Adding[list] =>
                                        created + Cardinality(Adders) < MaxRows}

Submit(r, i) ==
    /\ Listening("gateway")
    /\ \E row \in (IF list = "findAll" /\ i.route \in OnOne THEN rows ELSE {0}) :
           request' = [request EXCEPT ![r] =
               Dispatch([Idle EXCEPT !.route = i.route, !.id = i.id, !.fields = i.fields,
                                     !.user = i.user, !.header = i.header, !.row = row])]
    /\ UNCHANGED <<startupVars, dataVars, walk>>

\* JwtAuthGuard comes before the pipe.
SubmitUnauthorized(r) ==
    /\ Listening("gateway") /\ Calm /\ Alone /\ list = "none"
    /\ \E route \in Routes : request' = [request EXCEPT ![r] =
           Answered([Idle EXCEPT !.route = route], Unauthorized)]
    /\ UNCHANGED <<startupVars, dataVars, walk>>
-----------------------------------------------------------------------------
(* The services.                                                           *)

\* A consumer takes the message; RabbitMQ forgets it (noAck).
Deliver(r) ==
    /\ request[r].stage = "sent" /\ Listening(Serving(r))
    /\ request' = [request EXCEPT ![r].stage = "handling",
                                  ![r].trail = TrailOf[request[r].route][request[r].header]]
    /\ UNCHANGED <<startupVars, dataVars, walk>>

ServiceAccepts(q) ==
    CASE ServiceOf(q.route) = "tasks" ->
             TasksAccept(q.route, TasksRpcFields(q.route, q.fields, q.user))
      [] ServiceOf(q.route) = "notifications" ->
             NotificationsAccept(NotificationsRpcFields(q.route, q.fields))
      [] OTHER -> TRUE

\* The requests among them that the service refuses.
RefusedInputs == {i \in Plain \cup Odd : ~ServiceAccepts(i)}
ServiceRefuses(q) ==
    [route |-> q.route, id |-> q.id, fields |-> q.fields, user |-> q.user,
     header |-> q.header] \in RefusedInputs

\* findTaskOrFail, findById, findEntityById; audit logs and notifications are
\* listed without a look at the task.
LooksUp(route) == route \in OnOne \ {"listAuditLogs", "listTaskNotifications"}

Found(q) ==
    /\ q.id = "ok"
    /\ list = "findAll" => q.row \in rows
    /\ list \in {"listComments", "listAuditLogs"} => present

\* A date without a day cannot be parsed, columns have a length and no null.
Unstorable(q) ==
    \/ q.route \in {"findAll", "create", "update"} /\ ClassOf(q.fields, "dueDate") = "partial"
    \/ q.route \in {"create", "update"} /\ ClassOf(q.fields, "title") = "long"
    \/ q.route = "update" /\ \E name \in {"title", "status", "priority"} :
                                ClassOf(q.fields, name) = "null"

\* createLog cannot store the display name, after the row was written.
Unaudited(q) == q.route \in {"create", "update", "remove"} /\ q.user.name = "long"

Error(q) ==
    CASE ServiceRefuses(q) -> PayloadException
      [] ~ServiceRefuses(q) /\ LooksUp(q.route) /\ ~Found(q) -> HttpException(404, "own")
      [] OTHER -> JsError

Fails(q) == ServiceRefuses(q) \/ (LooksUp(q.route) /\ ~Found(q)) \/ Unstorable(q)

StatusOf(e) == IF e.type = "http" THEN e.status ELSE 500

Replied(q, e) ==
    [q EXCEPT !.stage = "replied", !.thrown = StatusOf(e),
              !.status = AnswerStatus[ServiceOf(q.route)][e]]

\* Mutant: errors of the database leave the caller without a reply.
ThrowUnanswered(r) ==
    /\ request[r].stage = "handling" /\ Fails(request[r]) /\ ~Unstorable(request[r])
    /\ request' = [request EXCEPT ![r] = Replied(request[r], Error(request[r]))]
    /\ UNCHANGED <<startupVars, dataVars, walk>>

Throw(r) ==
    /\ request[r].stage = "handling" /\ Fails(request[r])
    /\ request' = [request EXCEPT ![r] = Replied(request[r], Error(request[r]))]
    /\ UNCHANGED <<startupVars, dataVars, walk>>

\* A row is added to the list that is followed, or is somewhere else.
AddRow ==
    /\ created < MaxRows
    /\ created' = created + 1
    /\ rows' = rows \cup {created + 1}
    /\ \E c \in Columns(walk.filter) : column' = [column EXCEPT ![created + 1] = c]

\* An update can leave the filtered column as it is.  The row is saved before the
\* audit entry, so an update that fails there has changed it.
Effect(q) ==
    CASE q.route = "create" /\ list = "findAll" -> AddRow /\ UNCHANGED present
      [] q.route = "createComment" /\ list = "listComments" -> AddRow /\ UNCHANGED present
      [] q.route = "update" /\ list = "listAuditLogs" /\ ~Unaudited(q) ->
             AddRow /\ UNCHANGED present
      [] q.route = "update" /\ list = "findAll" ->
             /\ \E c \in Columns(walk.filter) : column' = [column EXCEPT ![q.row] = c]
             /\ UNCHANGED <<rows, created, present>>
      [] q.route = "remove" /\ list = "findAll" ->
             rows' = rows \ {q.row} /\ UNCHANGED <<column, created, present>>
      [] q.route = "remove" /\ list = "listComments" ->
             rows' = {} /\ present' = FALSE /\ UNCHANGED <<column, created>>
      [] q.route = "remove" /\ list = "listAuditLogs" -> AddRow /\ present' = FALSE
      [] OTHER -> UNCHANGED <<rows, column, created, present>>

\* The rows among R that a filter lets through, their columns being C.
Chosen(R, C, filter) == {i \in R : filter \in {"any", C[i]}}

Matching(q) == Chosen(rows, column, q.filter)

Disturb ==
    walk' = [walk EXCEPT !.disturbed =
                 @ \/ (walk.on /\ ~(Matching(walk) \subseteq Chosen(rows', column', walk.filter)))]

\* A mutation or the lookup of one row.
Work(r) ==
    /\ request[r].stage = "handling" /\ ~Fails(request[r])
    /\ request[r].route # list \/ request[r].route \notin Listed
    /\ Effect(request[r]) /\ Disturb
    /\ request' = [request EXCEPT ![r] =
           IF Unaudited(request[r]) THEN Replied(request[r], JsError)
           ELSE [@ EXCEPT !.stage = "replied", !.status = Succeeds(request[r].route)]]
    /\ UNCHANGED <<startupVars, list>>
-----------------------------------------------------------------------------
(* Lists: a page of the rows that match, newest first, then their number.  *)

\* Mutant: pages are counted from zero.
PageFromZero(page, size, matching) ==
    {i \in matching : Cardinality({j \in matching : j > i}) \in
                          (page * size) .. (page * size + size - 1)}

\* skip((page - 1) * limit).take(limit), ordered by createdAt DESC.
Page(page, size, matching) ==
    {i \in matching : Cardinality({j \in matching : j > i}) \in
                          ((page - 1) * size) .. (page * size - 1)}

TotalPages(total, size) == (total + size - 1) \div size

ReadPage(r) ==
    LET q == request[r]
    IN  /\ q.stage = "handling" /\ q.route = list /\ ~Fails(q)
        /\ request' = [request EXCEPT ![r].stage = "read",
                                      ![r].data = Page(q.page, q.size, Matching(q))]
        /\ UNCHANGED <<startupVars, dataVars, walk>>

CountRows(r) ==
    LET q == request[r]
    IN  /\ q.stage = "read"
        /\ request' = [request EXCEPT ![r].stage = "replied", ![r].status = 200,
                                      ![r].total = Cardinality(Matching(q))]
        /\ UNCHANGED <<startupVars, dataVars, walk>>

\* An event stores a notification.
NotificationStored ==
    /\ list = "findNotifications" /\ walk.on
    /\ AddRow
    /\ UNCHANGED <<startupVars, request, list, present, walk>>
-----------------------------------------------------------------------------
(* The client that pages through the list while others write.              *)

Ask(r, route, page, size, filter) ==
    [request EXCEPT ![r] =
        [Idle EXCEPT !.stage = "sent", !.route = route, !.header = NoId, !.page = page,
                     !.size = size, !.filter = filter, !.walker = TRUE]]

\* The list to follow, the rows it has so far, and its first page.
StartWalk(r, l, n, size) ==
    /\ list = "none" /\ Calm /\ Alone /\ faults = 0 /\ restarts = 0
    /\ list' = l /\ created' = n /\ rows' = 1..n
    /\ \E filter \in Filters(l) : \E C \in [1..n -> Columns(filter)] :
           /\ column' = [i \in Row |-> IF i \in 1..n THEN C[i] ELSE "none"]
           /\ request' = Ask(r, l, 1, size, filter)
           /\ walk' = [NoWalk EXCEPT !.on = TRUE, !.page = 1, !.size = size, !.filter = filter,
                                     !.since = Chosen(1..n, column', filter)]
    /\ UNCHANGED <<startupVars, present>>

\* toPaginatedResponse says how many pages there are; the next one is asked for.
NextPage(r) ==
    LET q == request[r]
    IN  /\ q.stage = "answered" /\ q.walker
        /\ IF q.status = 200 /\ walk.page < TotalPages(q.total, q.size)
           THEN /\ request' = Ask(r, list, walk.page + 1, walk.size, walk.filter)
                /\ walk' = [walk EXCEPT !.page = @ + 1, !.seen = @ \cup q.data]
           ELSE /\ request' = [request EXCEPT ![r] = Idle]
                /\ walk' = [walk EXCEPT !.on = FALSE, !.seen = @ \cup q.data,
                                        !.disturbed = @ \/ q.status # 200]
        /\ UNCHANGED <<startupVars, dataVars>>

-----------------------------------------------------------------------------
\* The reply arrives and the gateway answers.
Answer(r) ==
    /\ request[r].stage = "replied"
    /\ request' = [request EXCEPT ![r].stage = "answered"]
    /\ UNCHANGED <<startupVars, dataVars, walk>>

\* The client has read its answer, or closes a request that nothing answers.
Forget(r) ==
    /\ request[r].stage \in {"answered", "lost"} /\ ~request[r].walker
    /\ request' = [request EXCEPT ![r] = Idle]
    /\ UNCHANGED <<startupVars, dataVars, walk>>

\* The process dies.  A broken socket rejects the calls to auth; a message that was
\* delivered is gone and its HTTP request stays open.
ServiceCrash(s) ==
    /\ Crash(s) /\ list = "none" /\ s # "gateway"
    /\ request' = [r \in Slot |->
           LET q == request[r]
           IN  CASE q.stage \in {"sent", "handling"} /\ Serving(r) = s /\ s = "auth" ->
                        Answered(q, Unreachable)
                 [] q.stage \in {"handling", "read"} /\ Serving(r) = s /\ s # "auth" ->
                        [q EXCEPT !.stage = "lost"]
                 [] OTHER -> q]
    /\ UNCHANGED <<dataVars, walk>>

RequestStep(r) ==
    \/ Deliver(r)
    \/ Throw(r)
    \/ Work(r)
    \/ ReadPage(r)
    \/ CountRows(r)
    \/ Answer(r)
    \/ NextPage(r)

Next ==
    \/ StartupNext /\ UNCHANGED <<request, dataVars, walk>>
    \/ \E s \in Service : ServiceCrash(s)
    \/ \E r \in NextSlot : \E i \in Offered : Submit(r, i)
    \/ \E r \in NextSlot : SubmitUnauthorized(r)
    \/ \E r \in Slot : RequestStep(r)
    \/ \E r \in Slot : Forget(r)
    \/ \E r \in NextSlot, l \in Listed, n \in 0..MaxRows, size \in Size : StartWalk(r, l, n, size)
    \/ NotificationStored

(* Processes run, timers fire, the broker delivers; failures, crashes and  *)
(* what operators and clients do are not promised.  One condition for all  *)
(* start-ups is enough: their steps are finitely many.                     *)
Fairness ==
    /\ WF_vars((\E s \in Service : StartupStep(s)) /\ UNCHANGED <<request, dataVars, walk>>)
    /\ \A r \in Slot : WF_vars(RequestStep(r))

Spec == Init /\ [][Next]_vars /\ Fairness
-----------------------------------------------------------------------------
(* What the pipe lets through the service accepts, and the database stores *)
(* it.  The contracts differ in five places only: an update that changes   *)
(* nothing (dto/task.ts:226), a comment by a user whose name is too long   *)
(* for one, dates without a day, titles and nulls the columns refuse, and  *)
(* an audit entry that cannot hold the name of its actor.                  *)
ServiceAgreesWithPipe ==
    \A r \in Slot :
        LET q == request[r]
        IN  q.stage = "answered" /\ GatewayAccepts(q.route, q.id, q.fields) =>
                /\ q.status = 400 =>
                       \/ q.route = "update" /\ ~UpdatesSomething(q.fields)
                       \/ q.route = "createComment" /\ q.user.name = "long"
                /\ q.status = 500 =>
                       Unstorable(q) \/ Unaudited(q) \/ Serving(r) = "auth"
                /\ q.status < 400 => ~Unstorable(q) /\ ~Unaudited(q)

(* The status a service throws is the status of the answer, through two    *)
(* conversions and the transport (tasks.service.ts:204, rpc.utils.ts:29).  *)
StatusKept ==
    \A r \in Slot :
        request[r].thrown # 0 /\ Serving(r) # "auth" =>
            request[r].status = request[r].thrown

(* The same of auth-service, as the comment of its proxy has it: "status   *)
(* codes like 401/409 from the auth service are preserved instead of       *)
(* becoming 500" (auth-gateway.service.ts:107).                            *)
StatusKeptByAuth ==
    \A r \in Slot :
        request[r].thrown # 0 /\ Serving(r) = "auth" =>
            request[r].status = request[r].thrown

(* One id from the response's header to the handler, to the handlers of    *)
(* the events it publishes and to the broadcast (tasks.service.ts:171 of   *)
(* the gateway).                                                           *)
TrailUnbroken ==
    \A r \in Slot :
        LET q == request[r]
        IN  InFlight(r) /\ q.stage # "sent" /\ Serving(r) = "tasks" =>
                \A hop \in DOMAIN q.trail :
                    q.trail[hop] = RequestContextMiddleware(q.header)

(* A client that reads a list page by page sees every row the list had,    *)
(* whatever others add in the meantime, unless a row leaves the list under *)
(* it: a row that is deleted, or that an update takes out of the filter,   *)
(* moves the next ones up, and one of them can slip between two pages      *)
(* (tasks.service.ts:138, :178, tasks.controller.ts:229 of the gateway).   *)
WalkComplete ==
    ~walk.on /\ walk.page > 0 /\ ~walk.disturbed => walk.since \subseteq walk.seen

(* Starting up never skips the database and never gives it up early.       *)
StartsInOrder == [][WaitsForDatabase]_vars

(* With PostgreSQL and RabbitMQ there, a process that has not failed for   *)
(* another reason ends up listening (main.ts:179 of notifications).        *)
StartsIfReachable ==
    database = "up" /\ broker = "up" ~>
        \A s \in Service : startup[s].phase \in {"listening", "exited"}

(* Nothing but a crash keeps an HTTP request open: one that was dispatched *)
(* is answered, or lost with the process that had it, or waits in the      *)
(* queue of a service that exited (tasks.service.ts:165 of the gateway has *)
(* no timeout).                                                            *)
RequestsAnswered ==
    \A r \in Slot :
        InFlight(r) ~> ~InFlight(r) \/ startup[Serving(r)].phase = "exited"
=============================================================================
