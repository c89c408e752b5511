---------------------------- MODULE EventPipeline ----------------------------
(***************************************************************************)
(* The path of a domain event through the system: tasks-service publishes  *)
(* it twice on tasks.events, notifications-service stores the              *)
(* notifications and relays it to gateway.events, the gateway broadcasts   *)
(* what it receives from either queue.                                     *)
(***************************************************************************)
EXTENDS NotificationsService, GatewayEvents

CONSTANT
    Payloads   \* the payloads the domain events may carry

ASSUME PayloadsAssumption == Payloads \subseteq LegalPayload

VARIABLE
    pub        \* pub[e]: how far tasks-service is with publishing e

vars == <<brokerVars, notificationsVars, gatewayVars, pub>>

PubState == {"none", "direct", "sent", "failed"}

(* Every variable has its type; a handler works on a published event.      *)
TypeOK ==
    /\ BrokerTypeOK
    /\ NotificationsTypeOK
    /\ GatewayTypeOK
    /\ pub \in [Event -> PubState]
    /\ \A e \in Event : pub[e] # "none" => payload[e] \in Payload

Init ==
    /\ BrokerInit
    /\ NotificationsInit
    /\ GatewayInit
    /\ pub = [e \in Event |-> "none"]

-----------------------------------------------------------------------------
(* The two emits at the end of every mutation in tasks-service, awaited    *)
(* one after the other; emitEvent swallows the failure of either.          *)

EmitDirect(e, p) ==
    /\ pub[e] = "none"
    /\ payload' = [payload EXCEPT ![e] = p]
    /\ pub' = [pub EXCEPT ![e] = "direct"]
    /\ \/ ready' = Plus(ready, Direct(e)) /\ UNCHANGED faults
       \/ Fault /\ UNCHANGED ready
    /\ UNCHANGED <<held, chan, dropped, notificationsVars, gatewayVars>>

EmitForward(e) ==
    /\ pub[e] = "direct"
    /\ \/ /\ ready' = Plus(ready, Forward(e))
          /\ pub' = [pub EXCEPT ![e] = "sent"]
          /\ UNCHANGED faults
       \/ /\ Fault
          /\ pub' = [pub EXCEPT ![e] = "failed"]
          /\ UNCHANGED ready
    /\ UNCHANGED <<payload, held, chan, dropped, notificationsVars, gatewayVars>>

Publish ==
    \/ \E e \in Event, p \in Payloads : EmitDirect(e, p)
    \/ \E e \in Event : EmitForward(e)

Notifications == NotificationsNext /\ UNCHANGED <<gatewayVars, pub>>

Gateway == GatewayNext /\ UNCHANGED <<notificationsVars, pub>>

Next == Publish \/ Notifications \/ Gateway

Spec == Init /\ [][Next]_vars

(* The event loops run what is runnable, the connection manager keeps      *)
(* reconnecting, the gateway gets to listen.  Nothing is assumed of        *)
(* failures, of crashes, or of which consumer a message is given to.       *)
Fairness ==
    /\ \A e \in Event :
          /\ WF_vars(EmitForward(e))
          /\ WF_vars(\E s \in Slot : Start(s, e) /\ UNCHANGED <<gatewayVars, pub>>)
    /\ \A s \in Slot :
          /\ WF_vars(EmitRelay(s) /\ UNCHANGED <<gatewayVars, pub>>)
          /\ WF_vars(Confirm(s) /\ UNCHANGED <<gatewayVars, pub>>)
          /\ \A u \in User : WF_vars(Save(s, u) /\ UNCHANGED <<gatewayVars, pub>>)
    /\ \A c \in GatewayConsumer, m \in Message :
          WF_vars((ForwardEvent(c, m) \/ GatewayUnhandled(c, m))
                      /\ UNCHANGED <<notificationsVars, pub>>)
    /\ \A m \in Message : WF_vars(Unhandled(m) /\ UNCHANGED <<gatewayVars, pub>>)
    /\ WF_vars(NotificationsReconnect /\ UNCHANGED <<gatewayVars, pub>>)
    /\ \A c \in GatewayConsumer :
          WF_vars(GatewayReconnect(c) /\ UNCHANGED <<notificationsVars, pub>>)
    /\ WF_vars(WsListen /\ UNCHANGED <<notificationsVars, pub>>)

FairSpec == Spec /\ Fairness

-----------------------------------------------------------------------------
(* Properties.                                                             *)

Stored(e) == \A u \in Recipients(payload[e]) : rows[e][u] > 0

(* The relay of e has left notifications-service.                          *)
Relayed(e) == ready[Relay(e)] + broadcast[Relay(e)] + dropped[Relay(e)] > 0

(* Whatever fails, is redelivered or crashes, an event on gateway.events,  *)
(* or broadcast from it, has a stored notification for each recipient.     *)
(* Comments reach the clients this way only (handleNewComment,             *)
(* handleTaskEvent: persist, then emit).                                   *)
StoredBeforeRelay == \A e \in Event : Relayed(e) => Stored(e)

(* A second notification of one user about one event, or a second          *)
(* broadcast of one message, is always paid for by a failure; in noAck     *)
(* mode, where nothing is ever redelivered, there is none.  No handler     *)
(* looks for an earlier notification before it stores one.                 *)
DuplicatesArePaidFor ==
    LET excess == IF NoAck THEN 0 ELSE faults IN
    /\ \A e \in Event, u \in User : rows[e][u] <= 1 + excess
    /\ \A m \in Message : broadcast[m] <= 1 + excess

(* The user who caused an event is never notified of it, whichever of the  *)
(* retries stored the rows, and only users the payload names are.          *)
OnlyConcernedUsersNotified ==
    \A e \in Event, u \in User : rows[e][u] > 0 =>
        /\ u # payload[e].actor
        /\ u \in payload[e].recipients \cup payload[e].assignees

(* A forwarded event that the broker took is still there, or is with the   *)
(* gateway, or was discarded by a consumer without a handler for it: no    *)
(* failure of a save or of the relay loses it.                             *)
NothingLost ==
    \A e \in Event : pub[e] = "sent" =>
        \/ ready[Forward(e)] + held[Forward(e)] > 0
        \/ dropped[Forward(e)] > 0
        \/ Relayed(e)

(* nack(message, false, true): a message that could not be stored is back  *)
(* on the queue when its handler gives up.                                 *)
FailureIsRedelivered ==
    [][\A s \in Slot :
          LET e == handler[s].event IN
          /\ handler[s].pc = "persist" /\ handler[s].link = "live"
          /\ handler'[s].pc \in {"rejected", "idle"}
          => ready'[Forward(e)] > 0]_vars

(* Notifications are stored before clients hear of the event.              *)
StoredBeforeFanOut ==
    \A m \in Message : broadcast[m] > 0 => Stored(m.event)

(* An event published for notifications-service is handled there.          *)
ForwardReachesItsHandler == \A e \in Event : dropped[Forward(e)] = 0

(* With acknowledgements and finitely many failures, an event on           *)
(* tasks.events ends at the clients, unless the gateway took it from the   *)
(* shared queue or was not listening yet.                                  *)
EventuallyBroadcast ==
    \A e \in Event : pub[e] = "sent" ~>
        dropped[Forward(e)] + broadcast[Relay(e)] + dropped[Relay(e)] > 0
-----------------------------------------------------------------------------
(* The inductive invariant behind the safety properties.                   *)

Active(s) == handler[s].pc # "idle"

(* The handler in slot s has yet to acknowledge or reject the message.     *)
Owns(s, e) ==
    /\ handler[s].pc \in {"persist", "relay", "confirm"}
    /\ handler[s].link = "live"
    /\ handler[s].event = e

(* Nothing is said about an event before tasks-service publishes it.       *)
OnlyPublished ==
    /\ \A m \in Message :
          ready[m] + held[m] + broadcast[m] + dropped[m] > 0 => pub[m.event] # "none"
    /\ \A s \in Slot : Active(s) => pub[handler[s].event] # "none"
    /\ \A e \in Event, u \in User : rows[e][u] > 0 => pub[e] # "none"

(* A forwarded message exists once, at the broker or with one handler:     *)
(* what is redelivered is never also held, and no two handlers can         *)
(* acknowledge the same delivery.                                          *)
SingleOwner ==
    /\ \A e \in Event :
          /\ ready[Forward(e)] + held[Forward(e)] <= 1
          /\ pub[e] # "sent" => ready[Forward(e)] + held[Forward(e)] = 0
    /\ \A s \in Slot, e \in Event : ~NoAck /\ Owns(s, e) => held[Forward(e)] = 1
    /\ \A s, t \in Slot, e \in Event : ~NoAck /\ Owns(s, e) /\ Owns(t, e) => s = t

(* Only notifications-service holds messages, and only forwarded ones.     *)
OnlyForwardsHeld == \A m \in Message : held[m] > 0 => m.path = "forward"

(* What a handler has stored so far.                                       *)
Progress ==
    \A s \in Slot :
        LET h == handler[s] IN
        /\ Active(s) => h.pending \subseteq Recipients(payload[h.event])
        /\ h.pc = "persist" =>
              \A u \in Recipients(payload[h.event]) \ h.pending : rows[h.event][u] > 0
        /\ h.pc \in {"relay", "confirm"} => Stored(h.event)

(* The safety properties with what makes them inductive.                   *)
IInv ==
    /\ TypeOK
    /\ OnlyPublished
    /\ SingleOwner
    /\ OnlyForwardsHeld
    /\ Progress
    /\ StoredBeforeRelay
    /\ OnlyConcernedUsersNotified
=============================================================================
