------------------------ MODULE NotificationsService ------------------------
(***************************************************************************)
(* apps/notifications: the consumer of tasks.events.  For each forwarded   *)
(* event a handler stores one notification per recipient, all of them in   *)
(* parallel (Promise.all), then relays the event to gateway.events, then   *)
(* acknowledges the message; a failure on the way rejects the message with *)
(* requeue.  Handlers of different messages interleave at every await.     *)
(***************************************************************************)
EXTENDS Broker

CONSTANTS
    Slot,      \* the handlers that may be running at once
    NoEvent    \* the event of an idle slot

ASSUME NoEventAssumption == NoEvent \notin Event

VARIABLES
    handler,   \* handler[s]: the progress of the handler in slot s
    rows       \* rows[e][u]: notifications stored for user u about event e

notificationsVars == <<handler, rows>>

(* "persist": saves of "pending" in flight.  "rejected": a save failed and *)
(* the message was rejected, the other saves are still in flight.          *)
(* "relay": about to publish to gateway.events.  "confirm": published,     *)
(* waiting for the confirmation.  "link" is "stale" once the channel the   *)
(* message came over is gone.                                              *)
Handler ==
    [pc : {"idle", "persist", "rejected", "relay", "confirm"},
     event : Event \cup {NoEvent}, pending : SUBSET User, link : {"live", "stale"}]

Idle == [pc |-> "idle", event |-> NoEvent, pending |-> {}, link |-> "live"]

NotificationsTypeOK ==
    /\ handler \in [Slot -> Handler]
    /\ \A s \in Slot : handler[s].pc # "idle" =>
          handler[s].event \in Event /\ payload[handler[s].event] \in Payload
    /\ rows \in [Event -> [User -> Nat]]

NotificationsInit ==
    /\ handler = [s \in Slot |-> Idle]
    /\ rows = [e \in Event |-> [u \in User |-> 0]]

(* Every handler whose message came over the channel that has just closed. *)
Stale(h) == [s \in Slot |-> IF h[s].pc = "idle" THEN h[s] ELSE [h[s] EXCEPT !.link = "stale"]]

AddRow(e, u) == rows' = [rows EXCEPT ![e][u] = @ + 1]

-----------------------------------------------------------------------------
(* channel.ack and channel.nack(message, false, true) by the handler in    *)
(* slot s, which goes on as `next` (Idle, or waiting for its other saves). *)
(* On a channel that is gone both throw and nothing changes at the broker. *)
(* In noAck mode both name a delivery the broker has forgotten: it closes  *)
(* the channel and redelivers nothing.                                     *)

ProtocolError(s, next) ==
    /\ ready' \in AfterLoss("notifications", ready, held)
    /\ chan' = [chan EXCEPT !["notifications"] = "closed"]
    /\ handler' = Stale([handler EXCEPT ![s] = next])
    /\ UNCHANGED held

Throws(s, next) ==
    /\ handler' = [handler EXCEPT ![s] = next]
    /\ UNCHANGED <<ready, held, chan>>

Ack(s, next) ==
    CASE handler[s].link = "stale" -> Throws(s, next)
      [] handler[s].link = "live" /\ NoAck -> ProtocolError(s, next)
      [] handler[s].link = "live" /\ ~NoAck ->
            /\ held' = Minus(held, Forward(handler[s].event))
            /\ handler' = [handler EXCEPT ![s] = next]
            /\ UNCHANGED <<ready, chan>>

(* Mutant: nack(message, false, false), the message is not requeued.       *)
NackWithoutRequeue(s, next) == Ack(s, next)

(* Mutant: the handler puts the message back on the queue by itself.       *)
NackAndResend(s, next) ==
    /\ ready' = Plus(ready, Forward(handler[s].event))
    /\ handler' = [handler EXCEPT ![s] = next]
    /\ UNCHANGED <<held, chan>>

Nack(s, next) ==
    CASE handler[s].link = "stale" -> Throws(s, next)
      [] handler[s].link = "live" /\ NoAck -> ProtocolError(s, next)
      [] handler[s].link = "live" /\ ~NoAck ->
            /\ held' = Minus(held, Forward(handler[s].event))
            /\ ready' = Plus(ready, Forward(handler[s].event))
            /\ handler' = [handler EXCEPT ![s] = next]
            /\ UNCHANGED chan

-----------------------------------------------------------------------------
(* A message reaches the service and its pattern has a handler: the        *)
(* recipients are resolved and their saves started; without a recipient    *)
(* nothing is stored and the event is relayed all the same.                *)
Start(s, e) ==
    LET m == Forward(e) IN
    /\ handler[s].pc = "idle"
    /\ Deliverable("notifications", m)
    /\ PatternOf("forward", payload[e].kind) \in NotificationsPatterns
    /\ ready' = Minus(ready, m)
    /\ held' = IF NoAck THEN held ELSE Plus(held, m)
    /\ handler' = [handler EXCEPT ![s] =
          [pc |-> IF Recipients(payload[e]) = {} THEN "relay" ELSE "persist",
           event |-> e, pending |-> Recipients(payload[e]), link |-> "live"]]
    /\ UNCHANGED <<payload, chan, dropped, faults, rows>>

(* A message whose pattern only the gateway handles.                       *)
Unhandled(m) ==
    /\ Deliverable("notifications", m)
    /\ PatternOf(m.path, payload[m.event].kind) \notin NotificationsPatterns
    /\ NoHandler("notifications", m)
    /\ handler' = IF NoAck THEN Stale(handler) ELSE handler
    /\ UNCHANGED rows

(* The handler in slot s once the save for u is over.                      *)
AfterSave(s, u) ==
    LET rest == handler[s].pending \ {u} IN
    IF rest # {} THEN [handler[s] EXCEPT !.pending = rest]
    ELSE IF handler[s].pc = "persist"
         THEN [handler[s] EXCEPT !.pc = "relay", !.pending = {}]
         ELSE Idle

(* One of the parallel saves succeeds; after the last one the handler goes *)
(* on, unless an earlier failure already ended it.                         *)
Save(s, u) ==
    /\ handler[s].pc \in {"persist", "rejected"}
    /\ u \in handler[s].pending
    /\ AddRow(handler[s].event, u)
    /\ handler' = [handler EXCEPT ![s] = AfterSave(s, u)]
    /\ UNCHANGED brokerVars

(* Mutant: the catch block goes on to the relay instead of returning.      *)
AfterFailureRelay(s, u) == [handler[s] EXCEPT !.pc = "relay", !.pending = {}]

(* The handler in slot s once the first save, the one for u, has failed.   *)
AfterFailure(s, u) ==
    LET rest == handler[s].pending \ {u} IN
    IF rest = {} THEN Idle
    ELSE [handler[s] EXCEPT !.pc = "rejected", !.pending = rest]

(* One of the parallel saves fails, its row stored or not.  The first      *)
(* failure rejects Promise.all: the message is rejected while the other    *)
(* saves go on.  A later failure is ignored.                               *)
SaveFails(s, u) ==
    /\ handler[s].pc \in {"persist", "rejected"}
    /\ u \in handler[s].pending
    /\ Fault
    /\ rows' = rows \/ AddRow(handler[s].event, u)
    /\ IF handler[s].pc = "persist"
       THEN Nack(s, AfterFailure(s, u))
       ELSE /\ handler' = [handler EXCEPT ![s] = AfterSave(s, u)]
            /\ UNCHANGED <<ready, held, chan>>
    /\ UNCHANGED <<payload, dropped>>

(* gatewayClient.emit reaches the queue gateway.events.                    *)
EmitRelay(s) ==
    /\ handler[s].pc = "relay"
    /\ ready' = Plus(ready, Relay(handler[s].event))
    /\ handler' = [handler EXCEPT ![s].pc = "confirm"]
    /\ UNCHANGED <<payload, held, chan, dropped, faults, rows>>

(* The emit resolves and the message is acknowledged.                      *)
Confirm(s) ==
    /\ handler[s].pc = "confirm"
    /\ Ack(s, Idle)
    /\ UNCHANGED <<payload, dropped, faults, rows>>

(* Mutant: the failure is swallowed and the message acknowledged.          *)
EmitFailureSwallowed(s) ==
    /\ handler[s].pc \in {"relay", "confirm"}
    /\ Fault
    /\ Ack(s, Idle)
    /\ UNCHANGED <<payload, dropped, rows>>

(* The emit rejects, before or after the broker took the message.          *)
EmitFails(s) ==
    /\ handler[s].pc \in {"relay", "confirm"}
    /\ Fault
    /\ Nack(s, Idle)
    /\ UNCHANGED <<payload, dropped, rows>>

(* The channel is lost for a reason outside the handlers: the messages it  *)
(* held return to the queue while their handlers go on.                    *)
NotificationsChannelLost ==
    /\ chan["notifications"] = "open"
    /\ Fault
    /\ ready' \in AfterLoss("notifications", ready, held)
    /\ held' = HeldAfterLoss("notifications", held)
    /\ chan' = [chan EXCEPT !["notifications"] = "closed"]
    /\ handler' = Stale(handler)
    /\ UNCHANGED <<payload, dropped, rows>>

(* The process dies: its handlers with it, the stored rows stay.           *)
NotificationsCrash ==
    /\ Fault
    /\ ready' \in AfterLoss("notifications", ready, held)
    /\ held' = HeldAfterLoss("notifications", held)
    /\ chan' = [chan EXCEPT !["notifications"] = "closed"]
    /\ handler' = [s \in Slot |-> Idle]
    /\ UNCHANGED <<payload, dropped, rows>>

NotificationsReconnect == Reconnect("notifications") /\ UNCHANGED notificationsVars

NotificationsNext ==
    \/ \E s \in Slot, e \in Event : Start(s, e)
    \/ \E m \in Message : Unhandled(m)
    \/ \E s \in Slot, u \in User : Save(s, u)
    \/ \E s \in Slot, u \in User : SaveFails(s, u)
    \/ \E s \in Slot : EmitRelay(s)
    \/ \E s \in Slot : Confirm(s)
    \/ \E s \in Slot : EmitFails(s)
    \/ NotificationsChannelLost
    \/ NotificationsCrash
    \/ NotificationsReconnect
=============================================================================
