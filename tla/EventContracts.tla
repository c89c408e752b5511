--------------------------- MODULE EventContracts ---------------------------
(***************************************************************************)
(* The contracts shared by the services (packages/types/src/contracts):    *)
(* which pattern a domain event travels under on each hop, what its        *)
(* payload carries, and whom the notifications service resolves as the     *)
(* recipients of a notification.                                           *)
(*                                                                         *)
(* A domain event goes from tasks-service to the queue tasks.events twice, *)
(* as "task.<kind>" (path "direct") and as "tasks.<kind>" (path            *)
(* "forward"); notifications-service turns the second into a third message *)
(* (path "relay") on the queue gateway.events.                             *)
(***************************************************************************)
EXTENDS Naturals

CONSTANTS
    Event,    \* the domain events of a behaviour: one per mutation of a task
    User,     \* user ids (UUIDs that the DTOs validated: never blank)
    NoUser    \* the absent actor

ASSUME NoUserAssumption == NoUser \notin User

Kind == {"created", "updated", "deleted", "comment"}

Path == {"direct", "forward", "relay"}

Message == [path : Path, event : Event]

Direct(e) == [path |-> "direct", event |-> e]
Forward(e) == [path |-> "forward", event |-> e]
Relay(e) == [path |-> "relay", event |-> e]

Queue == {"tasks.events", "gateway.events"}

(* The queue a message is published to: both clients of tasks-service      *)
(* write tasks.events, the gateway client of notifications-service writes  *)
(* gateway.events.                                                         *)
QueueOf(m) == IF m.path = "relay" THEN "gateway.events" ELSE "tasks.events"

DirectPattern ==
    [created |-> "task.created", updated |-> "task.updated",
     deleted |-> "task.deleted", comment |-> "task.comment.created"]

ForwardPattern ==
    [created |-> "tasks.created", updated |-> "tasks.updated",
     deleted |-> "tasks.deleted", comment |-> "tasks.comment.created"]

RelayPattern ==
    [created |-> "task.created", updated |-> "task.updated",
     deleted |-> "task.deleted", comment |-> "comment.new"]

PatternOf(path, kind) ==
    CASE path = "direct"  -> DirectPattern[kind]
      [] path = "forward" -> ForwardPattern[kind]
      [] path = "relay"   -> RelayPattern[kind]

(* The @EventPattern decorators of NotificationsController.                *)
NotificationsPatterns ==
    {"tasks.comment.created", "tasks.updated", "tasks.created", "tasks.deleted"}

(* The @EventPattern decorators of TasksEventsController.                  *)
GatewayPatterns ==
    {"task.created", "task.updated", "task.deleted", "comment.new"}

-----------------------------------------------------------------------------
(* Payloads.  "actor" is payload.actor.id of a task event and              *)
(* comment.authorId of a comment; "assignees" is payload.task.assignees,   *)
(* absent (empty) in a comment payload, which carries no task.             *)
Payload ==
    [kind : Kind, recipients : SUBSET User, assignees : SUBSET User,
     actor : User \cup {NoUser}]

(* TasksService.createEventPayload: the recipients are the assignees of    *)
(* the saved task.                                                         *)
TaskPayload(kind, assignees, actor) ==
    [kind |-> kind, recipients |-> assignees, assignees |-> assignees,
     actor |-> actor]

(* CommentsService.emitCommentCreated: the author and the assignees of the *)
(* task as it was loaded.                                                  *)
CommentPayload(author, assignees) ==
    [kind |-> "comment", recipients |-> {author} \cup assignees,
     assignees |-> {}, actor |-> author]

-----------------------------------------------------------------------------
(* Who gets a notification.                                                *)

(* Mutant: the actor is left among the recipients.                         *)
NotifyActorToo(p) == p.recipients \cup p.assignees

ResolveTaskRecipients(p) == (p.recipients \cup p.assignees) \ {p.actor}

ResolveCommentRecipients(p) ==
    LET listed == IF p.recipients # {} THEN p.recipients
                  ELSE ({p.actor} \cap User) \cup p.assignees
    IN  listed \ {p.actor}

Recipients(p) ==
    IF p.kind = "comment" THEN ResolveCommentRecipients(p)
    ELSE ResolveTaskRecipients(p)

LegalPayload ==
    {TaskPayload(k, a, u) :
        k \in Kind \ {"comment"}, a \in SUBSET User, u \in User \cup {NoUser}}
      \cup
    {CommentPayload(u, a) : u \in User, a \in SUBSET User}
=============================================================================
