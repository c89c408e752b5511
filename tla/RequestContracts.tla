-------------------------- MODULE RequestContracts --------------------------
(***************************************************************************)
(* The data contracts on both sides of an RPC: what the gateway's pipe     *)
(* accepts, what it sends on, and what the service validates again.        *)
(*                                                                         *)
(* Fields are given as a function from the names present to a class of     *)
(* values: "ok", "null", "blank" (an empty string), "long" (beyond the     *)
(* maximum length of comments' columns), "partial" (an ISO 8601 date with  *)
(* no day, which IsDateString accepts), "bad" (any value of another type   *)
(* or format).                                                             *)
(***************************************************************************)
EXTENDS Naturals, Functions

Absent == "absent"

\* Class-validator's decorators as sets of accepted classes.
AnyText == {"ok", "blank", "long"}
Text == {"ok", "long"}              \* and IsNotEmpty
Short == {"ok"}                     \* and MaxLength
Date == {"ok", "partial"}           \* IsDateString
Exact == {"ok"}                     \* IsUUID, IsEnum, IsEmail, IsInt with Min(1)
Optional(classes) == classes \cup {Absent, "null"}

ClassOf(fields, name) == IF name \in DOMAIN fields THEN fields[name] ELSE Absent

\* whitelist and forbidNonWhitelisted: no other field, every field accepted.
Accepts(dto, fields) ==
    /\ DOMAIN fields \subseteq DOMAIN dto
    /\ \A name \in DOMAIN dto : ClassOf(fields, name) \in dto[name]

\* The fields of f, and those of g that f has not.
Joined(f, g) ==
    [name \in DOMAIN f \cup DOMAIN g |-> IF name \in DOMAIN f THEN f[name] ELSE g[name]]

Correlated(dto) == Joined(dto, [requestId |-> Optional(AnyText)])
Paged(dto) == Joined(dto, [page |-> Optional(Exact), limit |-> Optional(Exact)])
Nothing == [f \in {} |-> {}]

-----------------------------------------------------------------------------
(* The gateway's DTOs.                                                     *)

TaskFilters ==
    [status |-> Optional(Exact), priority |-> Optional(Exact), search |-> Optional(AnyText),
     assigneeId |-> Optional(Exact), dueDate |-> Optional(Date)]

ListTasksQueryDto ==
    Joined([page |-> Optional(Exact), size |-> Optional(Exact)], TaskFilters)

TaskIdParamDto == Correlated([id |-> Exact])

CreateTaskDto ==
    [title |-> Text, description |-> Optional(AnyText), status |-> Exact,
     priority |-> Exact, dueDate |-> Optional(Date), assignees |-> Exact]

UpdateTaskDto ==
    [title |-> Optional(Text), description |-> Optional(AnyText),
     status |-> Optional(Exact), priority |-> Optional(Exact),
     dueDate |-> Optional(Date), assignees |-> Optional(Exact)]

CreateCommentBodyDto == [message |-> Short]
ListTaskCommentsQueryDto == Paged(Nothing)
ListTaskAuditLogsQueryDto == Paged(Nothing)

NotificationListFiltersDto ==
    Paged([status |-> Optional(Exact), channel |-> Optional(Exact),
           search |-> Optional(AnyText), from |-> Optional(Date), to |-> Optional(Date),
           taskId |-> Optional(Exact)])

ListUsersQueryDto == Paged([search |-> Optional(AnyText)])
UserIdParamDto == [id |-> Exact]

-----------------------------------------------------------------------------
(* The services' DTOs.                                                     *)

TaskIdDto == Correlated([id |-> Exact])
ListTasksDto == Correlated(Paged(TaskFilters))

TaskActorDto ==
    [actorId |-> Exact, actorName |-> Optional(AnyText), actorEmail |-> Optional(Exact)]

\* A nested object's fields are written beside its owner's.
CreateTaskPayloadDto == Correlated(Joined(CreateTaskDto, TaskActorDto))
UpdateTaskPayloadDto ==
    Correlated(Joined([id |-> Exact], Joined(UpdateTaskDto, TaskActorDto)))
RemoveTaskPayloadDto == Joined(TaskIdDto, TaskActorDto)

\* IsNotEmptyObject({ nullable: false }) on data: some field neither absent nor null.
UpdatesSomething(fields) ==
    \E name \in DOMAIN UpdateTaskDto : ClassOf(fields, name) \notin {Absent, "null"}

CreateCommentDto ==
    Correlated([taskId |-> Exact, authorId |-> Exact, authorName |-> Optional(Short),
                message |-> Short])

ListTaskCommentsDto == Correlated(Paged([taskId |-> Exact]))
ListTaskAuditLogsDto == Correlated(Paged([taskId |-> Exact]))

ListNotificationsPayloadDto ==
    Correlated(Joined(NotificationListFiltersDto, [recipientId |-> Exact]))

-----------------------------------------------------------------------------
(* Routes of the gateway: what the pipe validates of the path and of the   *)
(* query or body.                                                          *)

TaskRoutes ==
    {"findAll", "findById", "create", "update", "remove", "listComments",
     "listAuditLogs", "createComment", "listTaskNotifications"}
Routes == TaskRoutes \cup {"findNotifications", "findUsers", "findUser"}

\* Routes with an id in their path.
OnOne == Routes \ {"findAll", "create", "findNotifications", "findUsers"}

InputDto ==
    [findAll |-> ListTasksQueryDto, findById |-> Nothing, create |-> CreateTaskDto,
     update |-> UpdateTaskDto, remove |-> Nothing,
     listComments |-> ListTaskCommentsQueryDto,
     listAuditLogs |-> ListTaskAuditLogsQueryDto,
     createComment |-> CreateCommentBodyDto, listTaskNotifications |-> Nothing,
     findNotifications |-> NotificationListFiltersDto,
     findUsers |-> ListUsersQueryDto, findUser |-> Nothing]

GatewayAccepts(route, id, fields) ==
    /\ route \in OnOne => id \in {"ok", "unknown"}
    /\ Accepts(InputDto[route], fields)

\* The service behind each route.
ServiceOf(route) ==
    CASE route \in {"findUsers", "findUser"} -> "auth"
      [] route \in {"findNotifications", "listTaskNotifications"} -> "notifications"
      [] OTHER -> "tasks"

-----------------------------------------------------------------------------
(* The payload of the RPC.  user is the verified token: classes of its     *)
(* name and email.  JSON drops undefined values.                           *)

ActorName(user) == IF user.name = Absent THEN Nothing ELSE [actorName |-> user.name]
ActorEmail(user) == IF user.email = Absent THEN Nothing ELSE [actorEmail |-> user.email]
ActorFields(user) == Joined([actorId |-> "ok"], Joined(ActorName(user), ActorEmail(user)))

\* A blank name is left out, like a missing one.
AuthorFields(user) ==
    Joined([authorId |-> "ok"], IF user.name \in {Absent, "blank", "null"} THEN Nothing
                                ELSE [authorName |-> user.name])

WithPage(fields) == Joined([page |-> "ok", limit |-> "ok"], fields)

\* Mutant: the query goes on as it came, its size beside the limit.
TasksRpcFieldsWhole(route, fields, user) ==
    CASE route = "findAll" -> WithPage(fields)
      [] route = "findById" -> [id |-> "ok"]
      [] route = "create" -> Joined(fields, ActorFields(user))
      [] route = "update" -> Joined([id |-> "ok"], Joined(fields, ActorFields(user)))
      [] route = "remove" -> Joined([id |-> "ok"], ActorFields(user))
      [] route \in {"listComments", "listAuditLogs"} -> WithPage([taskId |-> "ok"])
      [] route = "createComment" ->
             Joined([taskId |-> "ok", message |-> fields.message], AuthorFields(user))

TasksRpcFields(route, fields, user) ==
    CASE route = "findAll" -> WithPage(Restrict(fields, DOMAIN fields \ {"page", "size"}))
      [] route = "findById" -> [id |-> "ok"]
      [] route = "create" -> Joined(fields, ActorFields(user))
      [] route = "update" -> Joined([id |-> "ok"], Joined(fields, ActorFields(user)))
      [] route = "remove" -> Joined([id |-> "ok"], ActorFields(user))
      [] route \in {"listComments", "listAuditLogs"} -> WithPage([taskId |-> "ok"])
      [] route = "createComment" ->
             Joined([taskId |-> "ok", message |-> fields.message], AuthorFields(user))

NotificationsRpcFields(route, fields) ==
    IF route = "listTaskNotifications"
    THEN WithPage([recipientId |-> "ok", taskId |-> "ok"])
    ELSE WithPage(Joined([recipientId |-> "ok"],
                         Restrict(fields, DOMAIN fields \ {"page", "limit"})))

\* transformPayload at the service; auth-service validates no payload.
TasksAccept(route, fields) ==
    CASE route = "findAll" -> Accepts(ListTasksDto, fields)
      [] route = "findById" -> Accepts(TaskIdDto, fields)
      [] route = "create" -> Accepts(CreateTaskPayloadDto, fields)
      [] route = "update" -> Accepts(UpdateTaskPayloadDto, fields) /\ UpdatesSomething(fields)
      [] route = "remove" -> Accepts(RemoveTaskPayloadDto, fields)
      [] route = "listComments" -> Accepts(ListTaskCommentsDto, fields)
      [] route = "listAuditLogs" -> Accepts(ListTaskAuditLogsDto, fields)
      [] route = "createComment" -> Accepts(CreateCommentDto, fields)

NotificationsAccept(fields) == Accepts(ListNotificationsPayloadDto, fields)
=============================================================================
