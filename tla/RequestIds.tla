----------------------------- MODULE RequestIds -----------------------------
(***************************************************************************)
(* The request id on its way from an HTTP request to the service that      *)
(* handles it and along the events it publishes.  Every process keeps its  *)
(* own copy of the same helpers; a copy that forgets the id breaks the     *)
(* trail from there on.  Pure operators.                                   *)
(*                                                                         *)
(* An id is "client" (sent by the caller), "made" (by nanoid), "blank"     *)
(* (white space) or absent.                                                *)
(***************************************************************************)
EXTENDS Naturals

NoId == "none"
Id == {"client", "made", "blank", NoId}
Usable(id) == id \notin {"blank", NoId}

\* A message of RabbitMQ: the requestId of its payload and of its headers.
\* correlation is the id by which the transport matches replies.
Message == [payload : Id, header : Id, correlation : BOOLEAN]

\* An AsyncLocalStorage context.
Context == [requestId : Id, correlation : BOOLEAN]
NoContext == [requestId |-> NoId, correlation |-> FALSE]
WithId(id) == [requestId |-> id, correlation |-> FALSE]

\* The gateway's middleware answers with this id and runs the request in it.
RequestContextMiddleware(header) == IF Usable(header) THEN header ELSE "made"

\* The gateway's TasksService puts the id in the payload and in a header.
CreateRecord(context) ==
    IF context.requestId = NoId
    THEN [payload |-> NoId, header |-> NoId, correlation |-> TRUE]
    ELSE [payload |-> context.requestId, header |-> context.requestId, correlation |-> TRUE]

\* Its NotificationsService sends the filters as they are.
PlainRecord == [payload |-> NoId, header |-> NoId, correlation |-> TRUE]

-----------------------------------------------------------------------------
(* RpcContextInterceptor, a copy in each service.                          *)

TasksRpcContext(message) ==
    [requestId |-> IF Usable(message.header) THEN message.header ELSE NoId,
     correlation |-> message.correlation]

NotificationsRpcContext(message) ==
    [requestId |-> IF Usable(message.header) THEN message.header ELSE NoId,
     correlation |-> message.correlation]

\* A TCP context has no getMessage.
AuthRpcContext == NoContext

-----------------------------------------------------------------------------
(* resolveRequestId: the payload's id, else the header's.                  *)

FirstUsable(a, b) == IF Usable(a) THEN a ELSE IF Usable(b) THEN b ELSE NoId

TasksRequestId(message) == FirstUsable(message.payload, message.header)
CommentsRequestId(message) == FirstUsable(message.payload, message.header)
NotificationsRequestId(message) == FirstUsable(message.payload, message.header)
GatewayRequestId(message) == FirstUsable(message.payload, message.header)

\* The handler's own context replaces the interceptor's.
RunWith(id, outer) == IF id = NoId THEN outer ELSE WithId(id)

TasksHandlerContext(message) == RunWith(TasksRequestId(message), TasksRpcContext(message))
CommentsHandlerContext(message) ==
    RunWith(CommentsRequestId(message), TasksRpcContext(message))
NotificationsHandlerContext(message) ==
    RunWith(NotificationsRequestId(message), NotificationsRpcContext(message))

-----------------------------------------------------------------------------
(* Events.  Their payloads carry no id of their own when they are made.    *)

CorrelatedMessage(payload, id) ==
    LET own == IF Usable(payload) THEN payload ELSE id
    IN  [payload |-> own, header |-> own, correlation |-> FALSE]

\* Mutant: the comment's record is built from the payload only.
CommentEventRecordPlain(context) == CorrelatedMessage(NoId, NoId)

TaskEventRecord(context) == CorrelatedMessage(NoId, context.requestId)
CommentEventRecord(context) == CorrelatedMessage(NoId, context.requestId)

\* The relay to the gateway keeps the payload it was given.
GatewayRecord(message) == CorrelatedMessage(message.payload, NotificationsRequestId(message))

\* TasksEventsController runs the broadcast in the event's id.
BroadcastContext(message) == RunWith(GatewayRequestId(message), NoContext)

\* Who hears which id of a mutation: the handler, the handler of its event, the
\* gateway that broadcasts what was relayed.
Trail(route, message) ==
    LET context == IF route = "createComment" THEN CommentsHandlerContext(message)
                   ELSE TasksHandlerContext(message)
        event == IF route = "createComment" THEN CommentEventRecord(context)
                 ELSE TaskEventRecord(context)
    IN  [handler |-> context.requestId,
         notifications |-> NotificationsHandlerContext(event).requestId,
         broadcast |-> BroadcastContext(GatewayRecord(event)).requestId]
=============================================================================
