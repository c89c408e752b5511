------------------------- MODULE EventDeliveryProofs -------------------------
(***************************************************************************)
(* TLAPS proofs about EventPipeline that depend on how the consumers       *)
(* acknowledge: with acknowledgements a forwarded event is never lost, and *)
(* what could not be stored is delivered again; without them nothing       *)
(* happens twice, and with them only what a failure paid for.              *)
(***************************************************************************)
EXTENDS EventPipelineProofs, FiniteSetTheorems

-----------------------------------------------------------------------------
(* A handler that waits for the confirmation has relayed its event.        *)
Confirmed ==
    \A s \in Slot, e \in Event :
        handler[s].pc = "confirm" /\ handler[s].event = e => Relayed(e)

DeliveryInv == IInv /\ NothingLost /\ Confirmed

(* The forwarded message of e is at the broker or with a handler, or was   *)
(* discarded.                                                              *)
Somewhere(e) == ready[Forward(e)] + held[Forward(e)] + dropped[Forward(e)] > 0

LEMMA Counts ==
    ASSUME IInv
    PROVE  /\ ready \in [Message -> Nat] /\ held \in [Message -> Nat]
           /\ dropped \in [Message -> Nat] /\ broadcast \in [Message -> Nat]
           /\ handler \in [Slot -> Handler]
           /\ \A s \in Slot : handler[s].pc # "idle" => handler[s].event \in Event
    BY DEF IInv, TypeOK, BrokerTypeOK, NotificationsTypeOK, GatewayTypeOK

(* What a step has to keep.                                                *)
LEMMA KeepsDelivery ==
    ASSUME DeliveryInv, IInv',
           \A e \in Event : Relayed(e) => Relayed(e)',
           \A e \in Event : Somewhere(e) => Somewhere(e)' \/ Relayed(e)',
           \A e \in Event : pub'[e] = "sent" => pub[e] = "sent" \/ Somewhere(e)',
           \A s \in Slot, e \in Event :
               handler'[s].pc = "confirm" /\ handler'[s].event = e =>
                   (handler[s].pc = "confirm" /\ handler[s].event = e) \/ Relayed(e)'
    PROVE  DeliveryInv'
<1>1. NothingLost'
  <2> SUFFICES ASSUME NEW e \in Event, pub'[e] = "sent"
               PROVE  \/ ready'[Forward(e)] + held'[Forward(e)] > 0
                      \/ dropped'[Forward(e)] > 0
                      \/ Relayed(e)'
    BY DEF NothingLost
  <2>1. Forward(e) \in Message
    BY MessageFacts
  <2>2. Somewhere(e)' \/ Relayed(e)'
    BY <2>1, Counts DEF DeliveryInv, NothingLost, Somewhere
  <2>3. ready'[Forward(e)] \in Nat /\ held'[Forward(e)] \in Nat /\ dropped'[Forward(e)] \in Nat
    BY <2>1 DEF IInv, TypeOK, BrokerTypeOK
  <2>4. QED BY <2>2, <2>3 DEF Somewhere
<1>2. Confirmed'
    BY DEF DeliveryInv, Confirmed
<1>3. QED BY <1>1, <1>2 DEF DeliveryInv

(* The gateway and tasks-service take nothing of a forwarded event away.   *)
ForwardUnknown == \A k \in Kind : PatternOf("forward", k) \notin GatewayPatterns

LEMMA ForwardUnknownFacts == ForwardUnknown
    BY DEF ForwardUnknown, PatternOf, ForwardPattern, GatewayPatterns, Kind

(* A consumer discards m, or the gateway broadcasts it.                    *)
LEMMA TakeDelivers ==
    ASSUME IInv, NEW m \in Message, ready[m] > 0, UNCHANGED held,
           \/ dropped' = Plus(dropped, m) /\ UNCHANGED broadcast
           \/ broadcast' = Plus(broadcast, m) /\ UNCHANGED dropped
              /\ \A e \in Event : m # Forward(e),
           ready' = Minus(ready, m) \/ UNCHANGED ready
    PROVE  /\ \A e \in Event : Relayed(e) => Relayed(e)'
           /\ \A e \in Event : Somewhere(e) => Somewhere(e)'
<1>1. /\ \A x \in Message : ready[x] \in Nat /\ held[x] \in Nat /\ dropped[x] \in Nat
                            /\ broadcast[x] \in Nat
      /\ \A x \in Message \ {m} : ready'[x] = ready[x]
      /\ ready'[m] = ready[m] - 1 \/ ready'[m] = ready[m]
    BY Counts, MinusFacts
<1>2. \/ /\ \A x \in Message \ {m} : dropped'[x] = dropped[x]
         /\ dropped'[m] = dropped[m] + 1 /\ broadcast' = broadcast
      \/ /\ \A x \in Message \ {m} : broadcast'[x] = broadcast[x]
         /\ broadcast'[m] = broadcast[m] + 1 /\ dropped' = dropped
         /\ \A e \in Event : m # Forward(e)
    BY Counts, PlusFacts
<1>3. \A e \in Event : Relayed(e) => Relayed(e)'
    BY <1>1, <1>2, MessageFacts DEF Relayed
<1>4. \A e \in Event : Somewhere(e) => Somewhere(e)'
    BY <1>1, <1>2, MessageFacts DEF Somewhere
<1>5. QED BY <1>3, <1>4

LEMMA GatewayDelivers ==
    ASSUME ~NoAck, DeliveryInv, IInv', Gateway
    PROVE  DeliveryInv'
<1> USE DEF DeliveryInv
<1>1. UNCHANGED <<handler, pub>>
    BY DEF Gateway, notificationsVars
<1> SUFFICES /\ \A e \in Event : Relayed(e) => Relayed(e)'
             /\ \A e \in Event : Somewhere(e) => Somewhere(e)'
    BY <1>1, KeepsDelivery
<1>2. ASSUME UNCHANGED <<ready, held, dropped, broadcast>>
      PROVE  /\ \A e \in Event : Relayed(e) => Relayed(e)'
             /\ \A e \in Event : Somewhere(e) => Somewhere(e)'
    BY <1>2 DEF Relayed, Somewhere
<1>3. ASSUME NEW c \in GatewayConsumer, NEW m \in Message,
             ForwardEvent(c, m) \/ ForwardEventAckLost(c, m)
      PROVE  /\ \A e \in Event : Relayed(e) => Relayed(e)'
             /\ \A e \in Event : Somewhere(e) => Somewhere(e)'
  <2>1. PatternOf(m.path, payload[m.event].kind) \in GatewayPatterns /\ ready[m] > 0
    BY <1>3 DEF ForwardEvent, ForwardEventAckLost, Deliverable
  <2>2. payload[m.event] \in Payload
    <3>1. /\ m.event \in Event /\ ready[m] \in Nat /\ held[m] \in Nat /\ broadcast[m] \in Nat
          /\ dropped[m] \in Nat
      BY Counts DEF Message
    <3>2. pub[m.event] # "none"
      BY <2>1, <3>1 DEF IInv, OnlyPublished
    <3>3. QED BY <3>1, <3>2 DEF IInv, TypeOK
  <2>3. \A e \in Event : m # Forward(e)
    BY <2>1, <2>2, ForwardUnknownFacts DEF ForwardUnknown, Payload, Forward
  <2>4. ready' = Minus(ready, m) \/ UNCHANGED ready
    BY <1>3 DEF ForwardEvent, ForwardEventAckLost
  <2>5. /\ UNCHANGED held
        /\ \/ dropped' = Plus(dropped, m) /\ UNCHANGED broadcast
           \/ broadcast' = Plus(broadcast, m) /\ UNCHANGED dropped
    BY <1>3 DEF ForwardEvent, ForwardEventAckLost, EmitToClients
  <2>6. QED BY <2>1, <2>3, <2>4, <2>5, TakeDelivers
<1>4. ASSUME NEW c \in GatewayConsumer, NEW m \in Message, GatewayUnhandled(c, m)
      PROVE  /\ \A e \in Event : Relayed(e) => Relayed(e)'
             /\ \A e \in Event : Somewhere(e) => Somewhere(e)'
  <2>1. /\ ready[m] > 0 /\ UNCHANGED <<held, broadcast>> /\ dropped' = Plus(dropped, m)
        /\ ready' = Minus(ready, m)
    BY <1>4 DEF GatewayUnhandled, Deliverable, NoHandler, gatewayVars
  <2>2. QED BY <2>1, TakeDelivers
<1>5. ASSUME NEW c \in GatewayConsumer, GatewayChannelLost(c)
      PROVE  UNCHANGED <<ready, held, dropped, broadcast>>
  <2>1. ready' = [m \in Message |-> ready[m]]
    BY <1>5 DEF GatewayChannelLost, AfterLoss, GatewayConsumer
  <2>2. QED BY <1>5, <2>1, Counts DEF GatewayChannelLost, gatewayVars
<1>6. CASE GatewayCrash
  <2>1. PICK r \in AfterLoss("gatewayTasks", ready, held) :
            ready' \in AfterLoss("gatewayRelay", r, held)
    BY <1>6 DEF GatewayCrash
  <2>2. ready' = [m \in Message |-> r[m]] /\ r = [m \in Message |-> ready[m]]
    BY <2>1 DEF AfterLoss
  <2>3. UNCHANGED <<ready, held, dropped, broadcast>>
    BY <1>6, <2>2, Counts DEF GatewayCrash
  <2>4. QED BY <1>2, <2>3
<1>7. ASSUME WsListen \/ \E c \in GatewayConsumer : GatewayReconnect(c)
      PROVE  UNCHANGED <<ready, held, dropped, broadcast>>
    BY <1>7 DEF WsListen, GatewayReconnect, Reconnect, brokerVars, gatewayVars
<1>8. QED BY <1>2, <1>3, <1>4, <1>5, <1>6, <1>7 DEF Gateway, GatewayNext

LEMMA PublishDelivers ==
    ASSUME DeliveryInv, IInv', Publish
    PROVE  DeliveryInv'
<1> USE DEF DeliveryInv
<1>1. UNCHANGED <<handler, held, dropped, broadcast>>
    BY DEF Publish, EmitDirect, EmitForward, notificationsVars, gatewayVars
<1>2. \A m \in Message : ready'[m] >= ready[m]
  <2>1. UNCHANGED ready \/ \E m \in Message : ready' = Plus(ready, m)
    BY MessageFacts DEF Publish, EmitDirect, EmitForward
  <2>2. \A m \in Message : ready[m] \in Nat
    BY Counts
  <2>3. ASSUME NEW m \in Message, ready' = Plus(ready, m)
        PROVE  \A x \in Message : ready'[x] = IF x = m THEN ready[x] + 1 ELSE ready[x]
    BY <2>3, Counts, PlusFacts
  <2>4. QED BY <2>1, <2>2, <2>3
<1>3. ASSUME NEW e \in Event PROVE (Relayed(e) => Relayed(e)') /\ (Somewhere(e) => Somewhere(e)')
  <2>1. Relay(e) \in Message /\ Forward(e) \in Message
    BY MessageFacts
  <2>2. \A m \in Message : ready[m] \in Nat /\ ready'[m] \in Nat /\ held[m] \in Nat
                           /\ dropped[m] \in Nat /\ broadcast[m] \in Nat
    BY Counts DEF IInv, TypeOK, BrokerTypeOK
  <2>3. QED BY <1>1, <1>2, <2>1, <2>2 DEF Relayed, Somewhere
<1>4. ASSUME NEW e \in Event, pub'[e] = "sent" PROVE pub[e] = "sent" \/ Somewhere(e)'
  <2>1. pub \in [Event -> PubState]
    BY DEF IInv, TypeOK
  <2>2. ASSUME NEW f \in Event, EmitForward(f) PROVE pub[e] = "sent" \/ Somewhere(e)'
    <3>1. CASE pub' = [pub EXCEPT ![f] = "sent"] /\ ready' = Plus(ready, Forward(f))
      <4>1. e = f \/ pub[e] = "sent"
        BY <1>4, <2>1, <3>1
      <4>2. Forward(f) \in Message /\ ready'[Forward(f)] = ready[Forward(f)] + 1
        BY <3>1, Counts, PlusFacts, MessageFacts
      <4>3. e = f => Somewhere(e)'
        BY <1>1, <4>2, Counts DEF Somewhere
      <4>4. QED BY <4>1, <4>3
    <3>2. CASE pub' = [pub EXCEPT ![f] = "failed"]
      BY <1>4, <2>1, <3>2
    <3>3. QED BY <2>2, <3>1, <3>2 DEF EmitForward
  <2>3. ASSUME NEW f \in Event, pub' = [pub EXCEPT ![f] = "direct"]
        PROVE  pub[e] = "sent"
    BY <1>4, <2>1, <2>3
  <2>4. QED BY <2>2, <2>3 DEF Publish, EmitDirect
<1>5. QED BY <1>1, <1>3, <1>4, KeepsDelivery

-----------------------------------------------------------------------------
(* notifications-service.  The counts of the messages of an event, after a *)
(* step that moves none but the forwarded one of e.                        *)
LEMMA OthersDeliver ==
    ASSUME DeliveryInv, IInv', NEW e \in Event,
           UNCHANGED <<pub, broadcast>>,
           \A m \in Message \ {Forward(e)} :
               ready'[m] + held'[m] + dropped'[m] >= ready[m] + held[m] + dropped[m],
           \A m \in Message : m.path # "forward" =>
               ready'[m] >= ready[m] /\ dropped'[m] >= dropped[m],
           Somewhere(e) => Somewhere(e)' \/ Relayed(e),
           \A s \in Slot, f \in Event :
               handler'[s].pc = "confirm" /\ handler'[s].event = f =>
                   (handler[s].pc = "confirm" /\ handler[s].event = f) \/ Relayed(f)'
    PROVE  DeliveryInv'
<1>1. /\ \A m \in Message : ready[m] \in Nat /\ ready'[m] \in Nat /\ held[m] \in Nat
             /\ held'[m] \in Nat /\ dropped[m] \in Nat /\ dropped'[m] \in Nat
             /\ broadcast[m] \in Nat
    BY Counts DEF DeliveryInv, IInv, TypeOK, BrokerTypeOK
<1>2. ASSUME NEW f \in Event PROVE Relayed(f) => Relayed(f)'
  <2>1. Relay(f) \in Message /\ Relay(f).path = "relay"
    BY MessageFacts DEF Relay
  <2>2. QED BY <1>1, <2>1 DEF Relayed
<1>3. ASSUME NEW f \in Event PROVE Somewhere(f) => Somewhere(f)' \/ Relayed(f)'
  <2>1. CASE f = e
    BY <1>2, <2>1
  <2>2. CASE f # e
    <3>1. Forward(f) \in Message \ {Forward(e)}
      BY <2>2, MessageFacts
    <3>2. QED BY <1>1, <3>1 DEF Somewhere
  <2>3. QED BY <2>1, <2>2
<1>4. QED BY <1>2, <1>3, KeepsDelivery

(* A step after which no message is anywhere else, and nobody confirms.    *)
LEMMA SameDelivers ==
    ASSUME DeliveryInv, IInv', UNCHANGED <<pub, broadcast, ready, held, dropped>>,
           \A s \in Slot, f \in Event :
               handler'[s].pc = "confirm" /\ handler'[s].event = f =>
                   handler[s].pc = "confirm" /\ handler[s].event = f
    PROVE  DeliveryInv'
<1>1. \A e \in Event : (Relayed(e) => Relayed(e)') /\ (Somewhere(e) => Somewhere(e)')
    BY DEF Relayed, Somewhere
<1>2. QED BY <1>1, KeepsDelivery

(* Acknowledged after the relay or rejected before it: the message is not  *)
(* needed any more, or on the queue again.                                 *)
LEMMA SettleDelivers ==
    ASSUME ~NoAck, DeliveryInv, IInv', NEW s \in Slot, NEW next \in Handler,
           next.pc # "confirm", handler[s].pc \in {"persist", "relay", "confirm"},
           Nack(s, next) \/ (handler[s].pc = "confirm" /\ Ack(s, next)),
           UNCHANGED <<pub, broadcast, dropped>>
    PROVE  DeliveryInv'
<1> USE DEF DeliveryInv
<1>1. PICK e \in Event : e = handler[s].event
    BY Counts
<1>2. /\ handler' = [handler EXCEPT ![s] = next] /\ handler \in [Slot -> Handler]
      /\ handler[s].link \in {"stale", "live"}
    BY Counts DEF Nack, Ack, Throws, Handler
<1>3. \A r \in Slot, f \in Event :
          handler'[r].pc = "confirm" /\ handler'[r].event = f =>
              handler[r].pc = "confirm" /\ handler[r].event = f
    BY <1>2
<1>4. CASE handler[s].link = "stale"
  <2>1. UNCHANGED <<ready, held>>
    BY <1>4 DEF Nack, Ack, Throws
  <2>2. QED BY <1>3, <2>1, SameDelivers
<1>5. CASE handler[s].link = "live"
  <2>1. held[Forward(e)] = 1 /\ Forward(e) \in Message
    BY <1>1, <1>5, MessageFacts DEF IInv, SingleOwner, Owns
  <2>2. held' = Minus(held, Forward(e))
    BY <1>1, <1>5 DEF Nack, Ack
  <2>3. /\ held'[Forward(e)] = 0
        /\ \A m \in Message \ {Forward(e)} : held'[m] = held[m]
    BY <2>1, <2>2, MinusFacts, Counts
  <2>4. CASE Nack(s, next)
    <3>1. ready' = Plus(ready, Forward(e))
      BY <1>1, <1>5, <2>4 DEF Nack
    <3>2. /\ ready'[Forward(e)] = ready[Forward(e)] + 1
          /\ \A m \in Message \ {Forward(e)} : ready'[m] = ready[m]
      BY <2>1, <3>1, PlusFacts, Counts
    <3>3. \A m \in Message : ready[m] \in Nat /\ held[m] \in Nat /\ dropped[m] \in Nat
      BY Counts
    <3>4. Somewhere(e)'
      BY <2>1, <2>3, <3>2, <3>3 DEF Somewhere
    <3>5. QED BY <1>3, <2>1, <2>3, <3>2, <3>3, <3>4, OthersDeliver
  <2>5. CASE handler[s].pc = "confirm" /\ Ack(s, next)
    <3>1. UNCHANGED ready
      BY <1>5, <2>5 DEF Ack
    <3>2. Relayed(e)
      BY <1>1, <2>5 DEF Confirmed
    <3>3. \A m \in Message : ready[m] \in Nat /\ held[m] \in Nat /\ dropped[m] \in Nat
      BY Counts
    <3>4. \A m \in Message : m.path # "forward" => m # Forward(e)
      BY DEF Forward
    <3>5. QED BY <1>3, <2>3, <3>1, <3>2, <3>3, <3>4, OthersDeliver
  <2>6. QED BY <2>4, <2>5
<1>6. QED BY <1>2, <1>4, <1>5

LEMMA StartDelivers ==
    ASSUME ~NoAck, DeliveryInv, IInv', NEW s \in Slot, NEW e \in Event, Start(s, e),
           UNCHANGED <<pub, broadcast>>
    PROVE  DeliveryInv'
<1> USE DEF DeliveryInv
<1>1. /\ ready[Forward(e)] > 0 /\ ready' = Minus(ready, Forward(e))
      /\ held' = Plus(held, Forward(e)) /\ UNCHANGED dropped /\ Forward(e) \in Message
    BY MessageFacts DEF Start, Deliverable
<1>2. /\ \A m \in Message : ready[m] \in Nat /\ held[m] \in Nat /\ dropped[m] \in Nat
      /\ \A m \in Message : ready'[m] = IF m = Forward(e) THEN ready[m] - 1 ELSE ready[m]
      /\ \A m \in Message : held'[m] = IF m = Forward(e) THEN held[m] + 1 ELSE held[m]
    BY <1>1, Counts, MinusFacts, PlusFacts
<1>3. Somewhere(e)'
    BY <1>1, <1>2 DEF Somewhere
<1>4. \A r \in Slot : handler'[r].pc = "confirm" => handler'[r] = handler[r]
    BY Counts DEF Start
<1>5. \A m \in Message : m.path # "forward" => m # Forward(e)
    BY DEF Forward
<1>6. QED BY <1>1, <1>2, <1>3, <1>4, <1>5, OthersDeliver

LEMMA EmitRelayDelivers ==
    ASSUME DeliveryInv, IInv', NEW s \in Slot, EmitRelay(s), UNCHANGED <<pub, broadcast>>
    PROVE  DeliveryInv'
<1> USE DEF DeliveryInv
<1>1. PICK e \in Event : e = handler[s].event
    BY Counts DEF EmitRelay
<1>2. ready' = Plus(ready, Relay(e)) /\ UNCHANGED <<held, dropped>> /\ Relay(e) \in Message
    BY <1>1, MessageFacts DEF EmitRelay
<1>3. /\ \A m \in Message : ready[m] \in Nat /\ held[m] \in Nat /\ dropped[m] \in Nat
                            /\ broadcast[m] \in Nat
      /\ \A m \in Message : ready'[m] = IF m = Relay(e) THEN ready[m] + 1 ELSE ready[m]
    BY <1>2, Counts, PlusFacts
<1>4. Relayed(e)' /\ (Somewhere(e) => Somewhere(e)')
    BY <1>2, <1>3, MessageFacts DEF Relayed, Somewhere
<1>5. \A r \in Slot \ {s} : handler'[r] = handler[r]
    BY Counts DEF EmitRelay
<1>6. handler'[s].event = e
    BY <1>1, Counts DEF EmitRelay, Handler
<1>7. \A m \in Message : ready'[m] >= ready[m]
    BY <1>3
<1>8. \A r \in Slot, f \in Event :
          handler'[r].pc = "confirm" /\ handler'[r].event = f =>
              (handler[r].pc = "confirm" /\ handler[r].event = f) \/ Relayed(f)'
    BY <1>4, <1>5, <1>6
<1>9. QED BY <1>2, <1>3, <1>4, <1>7, <1>8, OthersDeliver

(* What the lost channel held is back on the queue.                        *)
LEMMA LossDelivers ==
    ASSUME ~NoAck, DeliveryInv, IInv', NotificationsChannelLost \/ NotificationsCrash,
           UNCHANGED <<pub, broadcast>>
    PROVE  DeliveryInv'
<1> USE DEF DeliveryInv
<1>1. /\ UNCHANGED dropped
      /\ \A m \in Message : ready'[m] = ready[m] + held[m] /\ held'[m] = 0
    BY DEF NotificationsChannelLost, NotificationsCrash, AfterLoss, HeldAfterLoss
<1>2. \A m \in Message : ready[m] \in Nat /\ held[m] \in Nat /\ dropped[m] \in Nat
                         /\ broadcast[m] \in Nat
    BY Counts
<1>3. \A e \in Event : (Relayed(e) => Relayed(e)') /\ (Somewhere(e) => Somewhere(e)')
    BY <1>1, <1>2, MessageFacts DEF Relayed, Somewhere
<1>4. \A r \in Slot, f \in Event :
          handler'[r].pc = "confirm" /\ handler'[r].event = f =>
              handler[r].pc = "confirm" /\ handler[r].event = f
  <2>1. CASE NotificationsChannelLost
    BY <2>1, Counts DEF NotificationsChannelLost, Stale, Handler
  <2>2. CASE NotificationsCrash
    BY <2>2 DEF NotificationsCrash, Idle
  <2>3. QED BY <2>1, <2>2
<1>5. QED BY <1>3, <1>4, KeepsDelivery

LEMMA NotificationsDeliver ==
    ASSUME ~NoAck, DeliveryInv, IInv', Notifications
    PROVE  DeliveryInv'
<1> USE DEF DeliveryInv
<1>1. UNCHANGED <<pub, broadcast>>
    BY DEF Notifications, gatewayVars
<1>2. ASSUME NEW m \in Message, Unhandled(m) PROVE DeliveryInv'
  <2>1. /\ ready[m] > 0 /\ UNCHANGED <<held, handler>> /\ dropped' = Plus(dropped, m)
        /\ ready' = Minus(ready, m)
    BY <1>2 DEF Unhandled, Deliverable, NoHandler
  <2>2. QED BY <1>1, <2>1, TakeDelivers, KeepsDelivery
<1>3. ASSUME NEW s \in Slot, NEW u \in User, handler[s].pc \in {"persist", "rejected"}
      PROVE  /\ AfterSave(s, u) \in Handler /\ AfterSave(s, u).pc # "confirm"
             /\ AfterFailure(s, u) \in Handler /\ AfterFailure(s, u).pc # "confirm"
    BY <1>3, Counts, IdleFacts DEF AfterSave, AfterFailure, Handler
<1>4. ASSUME NEW s \in Slot, NEW u \in User, handler[s].pc \in {"persist", "rejected"},
             handler' = [handler EXCEPT ![s] = AfterSave(s, u)],
             UNCHANGED <<ready, held, dropped>>
      PROVE  DeliveryInv'
    BY <1>1, <1>3, <1>4, Counts, SameDelivers
<1>5. ASSUME NEW s \in Slot, NEW u \in User, Save(s, u) PROVE DeliveryInv'
    BY <1>4, <1>5 DEF Save, brokerVars
<1>6. ASSUME NEW s \in Slot, NEW u \in User, SaveFails(s, u) PROVE DeliveryInv'
    BY <1>1, <1>3, <1>4, <1>6, SettleDelivers DEF SaveFails
<1>7. ASSUME NEW s \in Slot, Confirm(s) \/ EmitFails(s) PROVE DeliveryInv'
    BY <1>1, <1>7, IdleFacts, SettleDelivers DEF Confirm, EmitFails
<1>8. CASE NotificationsReconnect
    BY <1>1, <1>8, SameDelivers DEF NotificationsReconnect, Reconnect, notificationsVars
<1>9. QED BY <1>1, <1>2, <1>5, <1>6, <1>7, <1>8, StartDelivers, EmitRelayDelivers, LossDelivers
      DEF Notifications, NotificationsNext

-----------------------------------------------------------------------------
LEMMA DeliveryInvariant ==
    ASSUME ~NoAck
    PROVE  Spec => []DeliveryInv
<1>1. Init => DeliveryInv
    BY InitIInv DEF DeliveryInv, NothingLost, Confirmed, Init, NotificationsInit, Idle
<1>2. DeliveryInv /\ [Next]_vars => DeliveryInv'
  <2> SUFFICES ASSUME DeliveryInv, [Next]_vars PROVE DeliveryInv'
    OBVIOUS
  <2>1. IInv'
    BY NextIInv DEF DeliveryInv
  <2>2. CASE UNCHANGED vars
    BY <2>1, <2>2, SameDelivers
    DEF vars, brokerVars, notificationsVars, gatewayVars
  <2>3. QED BY <2>1, <2>2, PublishDelivers, NotificationsDeliver, GatewayDelivers DEF Next
<1>3. QED BY <1>1, <1>2, PTL DEF Spec

(* With acknowledgements, no failure of a save or of the relay, no crash   *)
(* and no lost channel loses a forwarded event: it is relayed, or still    *)
(* there, or was discarded (handleTaskEvent: ack after the relay, nack     *)
(* with requeue before it).                                                *)
THEOREM ForwardedIsKept == ~NoAck => (Spec => []NothingLost)
<1> SUFFICES ASSUME ~NoAck PROVE Spec => []NothingLost
    OBVIOUS
<1>1. DeliveryInv => NothingLost
    BY DEF DeliveryInv
<1>2. QED BY <1>1, DeliveryInvariant, PTL

-----------------------------------------------------------------------------
(* One step of a handler whose message came over a channel that is open.   *)
LEMMA GivesUp ==
    ASSUME ~NoAck, IInv, Next, NEW s \in Slot, NEW e \in Event, e = handler[s].event,
           handler[s].pc = "persist", handler[s].link = "live",
           handler'[s].pc \in {"rejected", "idle"}
    PROVE  ready'[Forward(e)] > 0
<1>1. held[Forward(e)] = 1 /\ Forward(e) \in Message
    BY MessageFacts DEF IInv, SingleOwner, Owns
<1>2. /\ \A m \in Message : ready[m] \in Nat
      /\ ready \in [Message -> Nat] /\ handler \in [Slot -> Handler]
    BY Counts
<1>3. handler'[s] # handler[s]
    OBVIOUS
<1>4. ~Publish /\ ~Gateway
    BY <1>3 DEF Publish, EmitDirect, EmitForward, Gateway, notificationsVars
<1>5. ASSUME NEW r \in Slot, NEW f \in Event, Start(r, f) PROVE FALSE
    BY <1>2, <1>3, <1>5 DEF Start
<1>6. ASSUME NEW r \in Slot, NEW u \in User, Save(r, u) PROVE FALSE
  <2>1. r = s
    BY <1>2, <1>3, <1>6 DEF Save
  <2>2. AfterSave(s, u).pc \in {"persist", "relay"}
    BY <1>2 DEF AfterSave, Handler
  <2>3. QED BY <1>2, <1>6, <2>1, <2>2 DEF Save
<1>7. ASSUME NEW r \in Slot, NEW next, Nack(r, next) \/ Ack(r, next)
      PROVE  handler' = [handler EXCEPT ![r] = next]
    BY <1>2, <1>7 DEF Nack, Ack, Throws, Handler
<1>8. ASSUME NEW r \in Slot, NEW u \in User, SaveFails(r, u)
      PROVE  ready'[Forward(e)] > 0
  <2>1. r = s
    BY <1>2, <1>3, <1>7, <1>8 DEF SaveFails
  <2>2. ready' = Plus(ready, Forward(e))
    BY <1>8, <2>1 DEF SaveFails, Nack
  <2>3. QED BY <1>1, <1>2, <2>2, PlusFacts
<1>9. ASSUME NEW r \in Slot, EmitRelay(r) \/ Confirm(r) \/ EmitFails(r) PROVE FALSE
    BY <1>2, <1>3, <1>7, <1>9 DEF EmitRelay, Confirm, EmitFails
<1>10. ASSUME NotificationsChannelLost PROVE FALSE
    BY <1>2, <1>10 DEF NotificationsChannelLost, Stale, Handler
<1>11. CASE NotificationsCrash
  <2>1. ready'[Forward(e)] = ready[Forward(e)] + held[Forward(e)]
    BY <1>1, <1>11 DEF NotificationsCrash, AfterLoss
  <2>2. QED BY <1>1, <1>2, <2>1
<1>12. ASSUME NotificationsReconnect \/ \E m \in Message : Unhandled(m) PROVE FALSE
    BY <1>3, <1>12 DEF NotificationsReconnect, notificationsVars, Unhandled
<1>13. QED BY <1>4, <1>5, <1>6, <1>8, <1>9, <1>10, <1>11, <1>12
       DEF Next, Notifications, NotificationsNext

(* With acknowledgements, a message that could not be stored is on the     *)
(* queue again once its handler gives up (nack(message, false, true)).     *)
THEOREM FailureRedelivers == ~NoAck => (Spec => FailureIsRedelivered)
<1> SUFFICES ASSUME ~NoAck PROVE Spec => FailureIsRedelivered
    OBVIOUS
<1> DEFINE Redelivers ==
        \A s \in Slot :
            LET e == handler[s].event IN
            /\ handler[s].pc = "persist" /\ handler[s].link = "live"
            /\ handler'[s].pc \in {"rejected", "idle"}
            => ready'[Forward(e)] > 0
<1>1. IInv /\ [Next]_vars => [Redelivers]_vars
  <2> SUFFICES ASSUME IInv, Next, NEW s \in Slot,
                      handler[s].pc = "persist" /\ handler[s].link = "live",
                      handler'[s].pc \in {"rejected", "idle"}
               PROVE  ready'[Forward(handler[s].event)] > 0
    OBVIOUS
  <2>1. PICK e \in Event : e = handler[s].event
    BY Counts
  <2>2. ready'[Forward(e)] > 0
    BY <2>1, GivesUp
  <2>3. QED BY <2>1, <2>2
<1>2. QED BY <1>1, Invariance, PTL DEF Spec, FailureIsRedelivered

-----------------------------------------------------------------------------
(* Without acknowledgements, the mode the consumers run in, nothing is     *)
(* stored or broadcast twice.                                              *)
Copies(m) == ready[m] + broadcast[m]

(* The handler in slot s works on e.                                       *)
WorksOn(s, e) == Active(s) /\ handler[s].event = e

(* A forwarded message is waiting to be published, or on the queue, or     *)
(* with one handler, or gone.                                              *)
OneWorker ==
    /\ \A s \in Slot, e \in Event : WorksOn(s, e) => ready[Forward(e)] = 0 /\ pub[e] = "sent"
    /\ \A s, t \in Slot, e \in Event : WorksOn(s, e) /\ WorksOn(t, e) => s = t

(* What is still to be stored or relayed is not yet.                       *)
NotYet ==
    /\ \A e \in Event : ready[Forward(e)] > 0 \/ pub[e] # "sent" =>
          Copies(Relay(e)) = 0 /\ \A u \in User : rows[e][u] = 0
    /\ \A s \in Slot, e \in Event : WorksOn(s, e) =>
          /\ \A u \in handler[s].pending : rows[e][u] = 0
          /\ handler[s].pc \in {"persist", "relay"} => Copies(Relay(e)) = 0

Once ==
    \A e \in Event :
        /\ Copies(Direct(e)) <= 1 /\ Copies(Relay(e)) <= 1 /\ broadcast[Forward(e)] = 0
        /\ \A u \in User : rows[e][u] <= 1

OnceInv == IInv /\ OneWorker /\ NotYet /\ Once

(* A step that publishes nothing and starts no handler.                    *)
LEMMA OnceKept ==
    ASSUME OnceInv, IInv', UNCHANGED pub,
           \A m \in Message : ready'[m] <= ready[m] /\ Copies(m)' <= Copies(m),
           \A e \in Event : broadcast'[Forward(e)] = broadcast[Forward(e)],
           \A s \in Slot, e \in Event : WorksOn(s, e)' =>
               /\ WorksOn(s, e) /\ handler'[s].pending \subseteq handler[s].pending
               /\ handler'[s].pc \in {"persist", "relay"} => handler[s].pc \in {"persist", "relay"},
           \A e \in Event, u \in User :
               \/ rows'[e][u] = rows[e][u]
               \/ \E s \in Slot :
                     /\ WorksOn(s, e) /\ u \in handler[s].pending
                     /\ rows'[e][u] = rows[e][u] + 1
                     /\ WorksOn(s, e)' => u \notin handler'[s].pending
    PROVE  OnceInv'
<1> USE DEF OnceInv
<1>1. /\ \A m \in Message : ready[m] \in Nat /\ broadcast[m] \in Nat
             /\ ready'[m] \in Nat /\ broadcast'[m] \in Nat
             /\ Copies(m) \in Nat /\ Copies(m)' \in Nat
      /\ \A e \in Event : Direct(e) \in Message /\ Forward(e) \in Message /\ Relay(e) \in Message
    BY Counts, MessageFacts DEF IInv, TypeOK, BrokerTypeOK, GatewayTypeOK, Copies
<1>2. \A e \in Event, u \in User : rows[e][u] \in Nat
    BY DEF IInv, TypeOK, NotificationsTypeOK
<1>3. OneWorker'
  <2>1. ASSUME NEW s \in Slot, NEW e \in Event, WorksOn(s, e)'
        PROVE  ready'[Forward(e)] = 0 /\ pub'[e] = "sent"
    BY <1>1, <2>1 DEF OneWorker
  <2>2. ASSUME NEW s \in Slot, NEW t \in Slot, NEW e \in Event, WorksOn(s, e)', WorksOn(t, e)'
        PROVE  s = t
    BY <2>2 DEF OneWorker
  <2>3. QED BY <2>1, <2>2 DEF OneWorker
<1>4. ASSUME NEW e \in Event, NEW u \in User, rows'[e][u] # rows[e][u]
      PROVE  /\ rows[e][u] = 0 /\ rows'[e][u] = 1 /\ pub[e] = "sent" /\ ready[Forward(e)] = 0
             /\ \A s \in Slot : WorksOn(s, e)' => u \notin handler'[s].pending
  <2>1. PICK s \in Slot :
            /\ WorksOn(s, e) /\ u \in handler[s].pending
            /\ rows'[e][u] = rows[e][u] + 1
            /\ WorksOn(s, e)' => u \notin handler'[s].pending
    BY <1>4
  <2>2. rows[e][u] = 0 /\ pub[e] = "sent" /\ ready[Forward(e)] = 0
    BY <2>1 DEF NotYet, OneWorker
  <2>3. \A t \in Slot : WorksOn(t, e)' => t = s
    BY <2>1 DEF OneWorker
  <2>4. QED BY <2>1, <2>2, <2>3
<1>5. NotYet'
  <2>1. ASSUME NEW e \in Event, ready'[Forward(e)] > 0 \/ pub'[e] # "sent"
        PROVE  Copies(Relay(e))' = 0 /\ \A u \in User : rows'[e][u] = 0
    <3>1. ready[Forward(e)] > 0 \/ pub[e] # "sent"
      BY <1>1, <2>1
    <3>2. Copies(Relay(e)) = 0 /\ \A u \in User : rows[e][u] = 0
      BY <3>1 DEF NotYet
    <3>3. \A u \in User : rows'[e][u] = rows[e][u]
      BY <1>1, <1>4, <3>1
    <3>4. Copies(Relay(e))' = 0
      BY <1>1, <3>2
    <3>5. QED BY <3>2, <3>3, <3>4
  <2>2. ASSUME NEW s \in Slot, NEW e \in Event, WorksOn(s, e)'
        PROVE  /\ \A u \in handler'[s].pending : rows'[e][u] = 0
               /\ handler'[s].pc \in {"persist", "relay"} => Copies(Relay(e))' = 0
    <3>1. /\ WorksOn(s, e) /\ handler'[s].pending \subseteq handler[s].pending
          /\ handler'[s].pc \in {"persist", "relay"} => handler[s].pc \in {"persist", "relay"}
      BY <2>2
    <3>2. /\ \A u \in handler[s].pending : rows[e][u] = 0
          /\ handler[s].pc \in {"persist", "relay"} => Copies(Relay(e)) = 0
      BY <3>1 DEF NotYet
    <3>3. handler[s].pending \subseteq User
      BY Counts DEF Handler
    <3>4. \A u \in handler'[s].pending : rows'[e][u] = 0
      BY <1>4, <2>2, <3>1, <3>2, <3>3
    <3>5. Copies(Relay(e)) = 0 => Copies(Relay(e))' = 0
      BY <1>1
    <3>6. QED BY <3>1, <3>2, <3>4, <3>5
  <2>3. QED BY <2>1, <2>2 DEF NotYet
<1>6. Once'
  <2> SUFFICES ASSUME NEW e \in Event
               PROVE  /\ Copies(Direct(e))' <= 1 /\ Copies(Relay(e))' <= 1
                      /\ broadcast'[Forward(e)] = 0
                      /\ \A u \in User : rows'[e][u] <= 1
    BY DEF Once
  <2>1. /\ Copies(Direct(e)) <= 1 /\ Copies(Relay(e)) <= 1 /\ broadcast[Forward(e)] = 0
        /\ \A u \in User : rows[e][u] <= 1
    BY DEF Once
  <2>2. \A u \in User : rows'[e][u] <= 1
    BY <1>4, <2>1
  <2>3. Copies(Direct(e))' <= Copies(Direct(e)) /\ Copies(Relay(e))' <= Copies(Relay(e))
    BY <1>1
  <2>4. QED BY <1>1, <2>1, <2>2, <2>3
<1>7. QED BY <1>3, <1>5, <1>6

(* A consumer has no forwarded message that the gateway handles.           *)
LEMMA TakesNoForward ==
    ASSUME IInv, NEW m \in Message, ready[m] > 0,
           PatternOf(m.path, payload[m.event].kind) \in GatewayPatterns
    PROVE  \A e \in Event : m # Forward(e)
<1>1. /\ m.event \in Event /\ ready[m] \in Nat /\ held[m] \in Nat /\ broadcast[m] \in Nat
      /\ dropped[m] \in Nat
    BY Counts DEF Message
<1>2. pub[m.event] # "none"
    BY <1>1 DEF IInv, OnlyPublished
<1>3. payload[m.event] \in Payload
    BY <1>1, <1>2 DEF IInv, TypeOK
<1>4. QED BY <1>3, ForwardUnknownFacts DEF ForwardUnknown, Payload, Forward

(* A message is taken and the channel closed: the queues only shrink.      *)
LEMMA TakeLoses ==
    ASSUME NoAck, IInv, NEW c \in Consumer, NEW m \in Message, ready[m] > 0,
           ready' \in AfterLoss(c, Minus(ready, m), held)
    PROVE  \A x \in Message : ready'[x] <= ready[x]
<1>1. ready \in [Message -> Nat] /\ held \in [Message -> Nat]
    BY Counts
<1>2. Minus(ready, m) \in [Message -> Nat]
    BY <1>1, MinusFacts
<1>3. \A x \in Message : ready'[x] = 0 \/ ready'[x] = Minus(ready, m)[x]
    BY <1>1, <1>2, AfterLossFacts
<1>4. QED BY <1>1, <1>3, MinusFacts

(* The gateway broadcasts each message it takes once.                      *)
LEMMA GatewayOnce ==
    ASSUME NoAck, OnceInv, IInv', Gateway
    PROVE  OnceInv'
<1> USE DEF OnceInv
<1>1. UNCHANGED <<handler, rows, pub>>
    BY DEF Gateway, notificationsVars
<1>2. /\ \A m \in Message : ready[m] \in Nat /\ broadcast[m] \in Nat
      /\ ready \in [Message -> Nat] /\ held \in [Message -> Nat]
      /\ broadcast \in [Message -> Nat]
      /\ \A m \in Message : ready'[m] \in Nat
    BY Counts DEF IInv, TypeOK, BrokerTypeOK
<1> SUFFICES /\ \A m \in Message : ready'[m] <= ready[m] /\ Copies(m)' <= Copies(m)
             /\ \A e \in Event : broadcast'[Forward(e)] = broadcast[Forward(e)]
    BY <1>1, OnceKept DEF WorksOn, Active
<1>3. ASSUME NEW c \in GatewayConsumer, NEW m \in Message, ForwardEvent(c, m)
      PROVE  /\ \A x \in Message : ready'[x] <= ready[x] /\ Copies(x)' <= Copies(x)
             /\ \A e \in Event : broadcast'[Forward(e)] = broadcast[Forward(e)]
  <2>1. PatternOf(m.path, payload[m.event].kind) \in GatewayPatterns /\ ready[m] > 0
    BY <1>3 DEF ForwardEvent, Deliverable
  <2>2. \A e \in Event : m # Forward(e)
    BY <2>1, TakesNoForward
  <2>3. /\ \A x \in Message \ {m} : ready'[x] <= ready[x]
        /\ ready'[m] <= ready[m] - 1
    <3>1. Minus(ready, m) \in [Message -> Nat] /\ c \in Consumer
      BY <1>2, <2>1, MinusFacts DEF GatewayConsumer, Consumer
    <3>2. ready' \in AfterLoss(c, Minus(ready, m), held)
      BY <1>3 DEF ForwardEvent
    <3>3. \A x \in Message : ready'[x] = 0 \/ ready'[x] = Minus(ready, m)[x]
      BY <1>2, <3>1, <3>2, AfterLossFacts
    <3>4. QED BY <1>2, <2>1, <3>3, MinusFacts
  <2>4. broadcast' = Plus(broadcast, m) \/ UNCHANGED broadcast
    BY <1>3 DEF ForwardEvent, EmitToClients
  <2>5. /\ \A x \in Message \ {m} : broadcast'[x] = broadcast[x]
        /\ broadcast'[m] = broadcast[m] + 1 \/ broadcast'[m] = broadcast[m]
    BY <1>2, <2>4, PlusFacts
  <2>6. QED BY <1>2, <2>2, <2>3, <2>5, MessageFacts DEF Copies
<1>4. ASSUME UNCHANGED broadcast, \A x \in Message : ready'[x] <= ready[x]
      PROVE  /\ \A x \in Message : ready'[x] <= ready[x] /\ Copies(x)' <= Copies(x)
             /\ \A e \in Event : broadcast'[Forward(e)] = broadcast[Forward(e)]
    BY <1>2, <1>4 DEF Copies
<1>5. ASSUME NEW c \in GatewayConsumer, NEW m \in Message, GatewayUnhandled(c, m)
      PROVE  UNCHANGED broadcast /\ \A x \in Message : ready'[x] <= ready[x]
  <2>1. /\ ready[m] > 0 /\ UNCHANGED broadcast
        /\ ready' \in AfterLoss(c, Minus(ready, m), held)
    BY <1>5 DEF GatewayUnhandled, Deliverable, NoHandler, gatewayVars
  <2>2. QED BY <2>1, TakeLoses DEF GatewayConsumer, Consumer
<1>6. ASSUME NEW c \in GatewayConsumer, GatewayChannelLost(c)
      PROVE  UNCHANGED broadcast /\ \A x \in Message : ready'[x] <= ready[x]
  <2>1. UNCHANGED broadcast /\ ready' \in AfterLoss(c, ready, held)
    BY <1>6 DEF GatewayChannelLost, gatewayVars
  <2>2. QED BY <1>2, <2>1, AfterLossFacts DEF GatewayConsumer, Consumer
<1>7. CASE GatewayCrash
  <2>1. PICK r \in AfterLoss("gatewayTasks", ready, held) :
            ready' \in AfterLoss("gatewayRelay", r, held)
    BY <1>7 DEF GatewayCrash
  <2>2. r \in [Message -> Nat] /\ \A x \in Message : r[x] = 0 \/ r[x] = ready[x]
    BY <1>2, <2>1, AfterLossFacts DEF Consumer
  <2>3. \A x \in Message : ready'[x] = 0 \/ ready'[x] = r[x]
    BY <1>2, <2>1, <2>2, AfterLossFacts DEF Consumer
  <2>4. UNCHANGED broadcast
    BY <1>7 DEF GatewayCrash
  <2>5. QED BY <1>2, <1>4, <2>2, <2>3, <2>4
<1>8. ASSUME WsListen \/ \E c \in GatewayConsumer : GatewayReconnect(c)
      PROVE  UNCHANGED broadcast /\ \A x \in Message : ready'[x] <= ready[x]
    BY <1>2, <1>8 DEF WsListen, GatewayReconnect, Reconnect, brokerVars, gatewayVars
<1>9. ASSUME NEW c \in GatewayConsumer, NEW m \in Message
      PROVE  ~ForwardEventAckLost(c, m)
    BY DEF ForwardEventAckLost
<1>10. QED BY <1>3, <1>4, <1>5, <1>6, <1>7, <1>8, <1>9 DEF Gateway, GatewayNext

-----------------------------------------------------------------------------
(* notifications-service.  A handler goes on as `next`, having stored at   *)
(* most the row of one recipient that is then no longer pending.           *)
LEMMA HandlerOnce ==
    ASSUME OnceInv, IInv', NEW s \in Slot, NEW next \in Handler, Active(s),
           UNCHANGED <<pub, broadcast>>,
           \A m \in Message : ready'[m] <= ready[m],
           \A t \in Slot \ {s} : /\ handler'[t].pc = handler[t].pc
                                 /\ handler'[t].event = handler[t].event
                                 /\ handler'[t].pending = handler[t].pending,
           /\ handler'[s].pc = next.pc /\ handler'[s].event = next.event
           /\ handler'[s].pending = next.pending,
           next.pc # "idle" =>
               /\ next.event = handler[s].event /\ next.pending \subseteq handler[s].pending
               /\ next.pc \in {"persist", "relay"} => handler[s].pc \in {"persist", "relay"},
           \/ rows' = rows
           \/ \E u \in handler[s].pending :
                 AddRow(handler[s].event, u) /\ (next.pc # "idle" => u \notin next.pending)
    PROVE  OnceInv'
<1> USE DEF OnceInv
<1>1. /\ \A m \in Message : ready[m] \in Nat /\ broadcast[m] \in Nat /\ ready'[m] \in Nat
      /\ handler[s].event \in Event /\ handler[s].pending \subseteq User
      /\ rows \in [Event -> [User -> Nat]]
    BY Counts DEF IInv, TypeOK, BrokerTypeOK, NotificationsTypeOK, Active, Handler
<1>2. /\ \A m \in Message : ready'[m] <= ready[m] /\ Copies(m)' <= Copies(m)
      /\ \A e \in Event : broadcast'[Forward(e)] = broadcast[Forward(e)]
    BY <1>1 DEF Copies
<1>3. ASSUME NEW t \in Slot, NEW e \in Event, WorksOn(t, e)'
      PROVE  /\ WorksOn(t, e) /\ handler'[t].pending \subseteq handler[t].pending
             /\ handler'[t].pc \in {"persist", "relay"} => handler[t].pc \in {"persist", "relay"}
  <2>1. CASE t = s
    BY <1>3, <2>1 DEF WorksOn, Active
  <2>2. CASE t # s
    BY <1>3, <2>2 DEF WorksOn, Active
  <2>3. QED BY <2>1, <2>2
<1>4. ASSUME NEW e \in Event, NEW u \in User, rows'[e][u] # rows[e][u]
      PROVE  /\ WorksOn(s, e) /\ u \in handler[s].pending /\ rows'[e][u] = rows[e][u] + 1
             /\ WorksOn(s, e)' => u \notin handler'[s].pending
  <2>1. PICK v \in handler[s].pending :
            AddRow(handler[s].event, v) /\ (next.pc # "idle" => v \notin next.pending)
    BY <1>4
  <2>2. e = handler[s].event /\ u = v /\ rows'[e][u] = rows[e][u] + 1
    BY <1>1, <1>4, <2>1 DEF AddRow
  <2>3. QED BY <2>1, <2>2 DEF WorksOn, Active
<1>5. QED BY <1>2, <1>3, <1>4, OnceKept

(* In noAck mode ack and nack give nothing back.                           *)
LEMMA SettleOnce ==
    ASSUME NoAck, IInv, NEW s \in Slot, NEW next \in Handler, Ack(s, next) \/ Nack(s, next)
    PROVE  /\ \A m \in Message : ready'[m] <= ready[m]
           /\ \A t \in Slot \ {s} : /\ handler'[t].pc = handler[t].pc
                                    /\ handler'[t].event = handler[t].event
                                    /\ handler'[t].pending = handler[t].pending
           /\ handler'[s].pc = next.pc /\ handler'[s].event = next.event
           /\ handler'[s].pending = next.pending
<1> DEFINE h == [handler EXCEPT ![s] = next]
<1>1. h \in [Slot -> Handler] /\ h[s] = next /\ \A t \in Slot \ {s} : h[t] = handler[t]
    BY Counts
<1>2. handler[s].link \in {"live", "stale"}
    BY Counts DEF Handler
<1>3. Throws(s, next) \/ ProtocolError(s, next)
    BY <1>2 DEF Ack, Nack
<1>4. CASE Throws(s, next)
    BY <1>1, <1>4, Counts DEF Throws
<1>5. CASE ProtocolError(s, next)
  <2>1. handler' = Stale(h) /\ ready' \in AfterLoss("notifications", ready, held)
    BY <1>5 DEF ProtocolError
  <2> HIDE DEF h
  <2>2. \A m \in Message : ready'[m] <= ready[m]
    BY <2>1, Counts, AfterLossFacts DEF Consumer
  <2>3. QED BY <1>1, <2>1, <2>2, StaleFacts
<1>6. QED BY <1>3, <1>4, <1>5

(* Nothing is stored, and every handler stays as it is or ends.            *)
LEMMA IdleOnce ==
    ASSUME OnceInv, IInv', UNCHANGED <<pub, broadcast, rows>>,
           \A m \in Message : ready'[m] <= ready[m],
           \A s \in Slot : handler'[s].pc # "idle" =>
               /\ handler'[s].pc = handler[s].pc /\ handler'[s].event = handler[s].event
               /\ handler'[s].pending = handler[s].pending
    PROVE  OnceInv'
<1>1. \A m \in Message : ready[m] \in Nat /\ broadcast[m] \in Nat /\ ready'[m] \in Nat
    BY Counts DEF OnceInv, IInv, TypeOK, BrokerTypeOK
<1>2. \A m \in Message : Copies(m)' <= Copies(m)
    BY <1>1 DEF Copies
<1>3. QED BY <1>2, OnceKept DEF WorksOn, Active

LEMMA StartOnce ==
    ASSUME NoAck, OnceInv, IInv', NEW s \in Slot, NEW e \in Event, Start(s, e),
           UNCHANGED <<pub, broadcast>>
    PROVE  OnceInv'
<1> USE DEF OnceInv
<1>1. /\ handler[s].pc = "idle" /\ ready[Forward(e)] > 0
      /\ ready' = Minus(ready, Forward(e)) /\ UNCHANGED rows /\ Forward(e) \in Message
    BY MessageFacts DEF Start, Deliverable
<1>2. /\ \A m \in Message : ready[m] \in Nat /\ held[m] \in Nat /\ broadcast[m] \in Nat
      /\ \A m \in Message : ready'[m] = IF m = Forward(e) THEN ready[m] - 1 ELSE ready[m]
    BY <1>1, Counts, MinusFacts
<1>3. ready[Forward(e)] = 1 /\ pub[e] = "sent" /\ ready'[Forward(e)] = 0
    BY <1>1, <1>2, MessageFacts DEF IInv, SingleOwner
<1>4. /\ handler'[s].event = e /\ \A t \in Slot \ {s} : handler'[t] = handler[t]
    BY Counts DEF Start
<1>5. /\ Copies(Relay(e)) = 0 /\ \A u \in User : rows[e][u] = 0
    BY <1>1 DEF NotYet
<1>6. \A f \in Event : Copies(Relay(f))' = Copies(Relay(f)) /\ Copies(Direct(f))' = Copies(Direct(f))
    BY <1>2, MessageFacts DEF Copies
<1>7. \A t \in Slot : ~WorksOn(t, e)
    BY <1>1, <1>2, MessageFacts DEF OneWorker
<1>8. \A t \in Slot, f \in Event :
          WorksOn(t, f)' => (t = s /\ f = e) \/ (t # s /\ f # e /\ WorksOn(t, f))
    BY <1>1, <1>4, <1>7 DEF WorksOn, Active
<1>9. OneWorker'
  <2>1. ASSUME NEW t \in Slot, NEW f \in Event, WorksOn(t, f)'
        PROVE  ready'[Forward(f)] = 0 /\ pub'[f] = "sent"
    BY <1>2, <1>3, <1>8, <2>1, MessageFacts DEF OneWorker
  <2>2. ASSUME NEW t \in Slot, NEW r \in Slot, NEW f \in Event, WorksOn(t, f)', WorksOn(r, f)'
        PROVE  t = r
    BY <1>8, <2>2 DEF OneWorker
  <2>3. QED BY <2>1, <2>2 DEF OneWorker
<1>10. NotYet'
  <2>1. ASSUME NEW f \in Event, ready'[Forward(f)] > 0 \/ pub'[f] # "sent"
        PROVE  Copies(Relay(f))' = 0 /\ \A u \in User : rows'[f][u] = 0
    <3>1. ready[Forward(f)] > 0 \/ pub[f] # "sent"
      BY <1>2, <1>3, <2>1, MessageFacts
    <3>2. QED BY <1>1, <1>6, <3>1 DEF NotYet
  <2>2. ASSUME NEW t \in Slot, NEW f \in Event, WorksOn(t, f)'
        PROVE  /\ \A u \in handler'[t].pending : rows'[f][u] = 0
               /\ handler'[t].pc \in {"persist", "relay"} => Copies(Relay(f))' = 0
    <3>1. CASE t = s /\ f = e
      <4>1. handler'[s].pending \subseteq User
        BY DEF IInv, TypeOK, NotificationsTypeOK, Handler
      <4>2. QED BY <1>1, <1>5, <1>6, <3>1, <4>1
    <3>2. CASE t # s /\ WorksOn(t, f)
      BY <1>1, <1>4, <1>6, <3>2 DEF NotYet
    <3>3. QED BY <1>8, <2>2, <3>1, <3>2
  <2>3. QED BY <2>1, <2>2 DEF NotYet
<1>11. Once'
    BY <1>1, <1>6 DEF Once
<1>12. QED BY <1>9, <1>10, <1>11

LEMMA EmitRelayOnce ==
    ASSUME OnceInv, IInv', NEW s \in Slot, EmitRelay(s), UNCHANGED <<pub, broadcast>>
    PROVE  OnceInv'
<1> USE DEF OnceInv
<1>1. PICK e \in Event : e = handler[s].event
    BY Counts DEF EmitRelay
<1>2. /\ handler[s].pc = "relay" /\ ready' = Plus(ready, Relay(e)) /\ UNCHANGED rows
      /\ Relay(e) \in Message
    BY <1>1, MessageFacts DEF EmitRelay
<1>3. /\ \A m \in Message : ready[m] \in Nat /\ broadcast[m] \in Nat
      /\ \A m \in Message : ready'[m] = IF m = Relay(e) THEN ready[m] + 1 ELSE ready[m]
    BY <1>2, Counts, PlusFacts
<1>4. /\ handler'[s].pc = "confirm" /\ handler'[s].event = e
      /\ handler'[s].pending = handler[s].pending
      /\ \A t \in Slot \ {s} : handler'[t] = handler[t]
    BY <1>1, Counts DEF EmitRelay, Handler
<1>5. WorksOn(s, e)
    BY <1>1, <1>2 DEF WorksOn, Active
<1>6. Copies(Relay(e)) = 0 /\ pub[e] = "sent" /\ ready[Forward(e)] = 0
    BY <1>2, <1>5 DEF NotYet, OneWorker
<1>7. /\ \A f \in Event : Copies(Direct(f))' = Copies(Direct(f))
      /\ \A f \in Event : ready'[Forward(f)] = ready[Forward(f)]
      /\ \A f \in Event : Copies(Relay(f))' = IF f = e THEN 1 ELSE Copies(Relay(f))
    BY <1>3, <1>6, MessageFacts DEF Copies
<1>8. \A t \in Slot, f \in Event : WorksOn(t, f)' <=> WorksOn(t, f)
    BY <1>1, <1>2, <1>4 DEF WorksOn, Active
<1>9. OneWorker'
  <2>1. ASSUME NEW t \in Slot, NEW f \in Event, WorksOn(t, f)'
        PROVE  ready'[Forward(f)] = 0 /\ pub'[f] = "sent"
    BY <1>7, <1>8, <2>1 DEF OneWorker
  <2>2. ASSUME NEW t \in Slot, NEW r \in Slot, NEW f \in Event, WorksOn(t, f)', WorksOn(r, f)'
        PROVE  t = r
    BY <1>8, <2>2 DEF OneWorker
  <2>3. QED BY <2>1, <2>2 DEF OneWorker
<1>10. NotYet'
  <2>1. ASSUME NEW f \in Event, ready'[Forward(f)] > 0 \/ pub'[f] # "sent"
        PROVE  Copies(Relay(f))' = 0 /\ \A u \in User : rows'[f][u] = 0
    BY <1>2, <1>6, <1>7, <2>1 DEF NotYet
  <2>2. ASSUME NEW t \in Slot, NEW f \in Event, WorksOn(t, f)'
        PROVE  /\ \A u \in handler'[t].pending : rows'[f][u] = 0
               /\ handler'[t].pc \in {"persist", "relay"} => Copies(Relay(f))' = 0
    <3>1. WorksOn(t, f) /\ (f = e => t = s)
      BY <1>5, <1>8, <2>2 DEF OneWorker
    <3>2. handler'[t].pending = handler[t].pending
      BY <1>4
    <3>3. handler'[t].pc \in {"persist", "relay"} => f # e /\ handler'[t].pc = handler[t].pc
      BY <1>4, <3>1
    <3>4. QED BY <1>2, <1>7, <3>1, <3>2, <3>3 DEF NotYet
  <2>3. QED BY <2>1, <2>2 DEF NotYet
<1>11. Once'
    BY <1>2, <1>7 DEF Once
<1>12. QED BY <1>9, <1>10, <1>11

LEMMA NotificationsOnce ==
    ASSUME NoAck, OnceInv, IInv', Notifications
    PROVE  OnceInv'
<1> USE DEF OnceInv
<1>1. UNCHANGED <<pub, broadcast>>
    BY DEF Notifications, gatewayVars
<1>2. /\ ready \in [Message -> Nat] /\ held \in [Message -> Nat]
      /\ handler \in [Slot -> Handler]
      /\ \A m \in Message : ready[m] \in Nat
    BY Counts
<1>3. ASSUME NEW s \in Slot, NEW u \in User, handler[s].pc \in {"persist", "rejected"},
             u \in handler[s].pending,
             NEW next \in {AfterSave(s, u)} \cup
                          {h \in {AfterFailure(s, u)} : handler[s].pc = "persist"}
      PROVE  /\ next \in Handler /\ Active(s)
             /\ next.pc # "idle" =>
                   /\ next.event = handler[s].event
                   /\ next.pending \subseteq handler[s].pending
                   /\ next.pc \in {"persist", "relay"} => handler[s].pc \in {"persist", "relay"}
                   /\ u \notin next.pending
  <2>1. CASE next = AfterSave(s, u)
    BY <1>2, <1>3, <2>1, IdleFacts DEF AfterSave, Handler, Active
  <2>2. CASE next = AfterFailure(s, u) /\ handler[s].pc = "persist"
    BY <1>2, <1>3, <2>2, IdleFacts DEF AfterFailure, Handler, Active
  <2>3. QED BY <1>3, <2>1, <2>2
<1>4. ASSUME NEW s \in Slot, NEW u \in User, handler[s].pc \in {"persist", "rejected"},
             u \in handler[s].pending, UNCHANGED ready,
             handler' = [handler EXCEPT ![s] = AfterSave(s, u)],
             rows' = rows \/ AddRow(handler[s].event, u)
      PROVE  OnceInv'
    BY <1>1, <1>2, <1>3, <1>4, HandlerOnce
<1>5. ASSUME NEW s \in Slot, NEW u \in User, Save(s, u) PROVE OnceInv'
    BY <1>4, <1>5 DEF Save, brokerVars
<1>6. ASSUME NEW s \in Slot, NEW u \in User, SaveFails(s, u) PROVE OnceInv'
  <2>1. CASE handler[s].pc = "persist"
    <3>1. /\ Nack(s, AfterFailure(s, u)) /\ u \in handler[s].pending
          /\ rows' = rows \/ AddRow(handler[s].event, u)
      BY <1>6, <2>1 DEF SaveFails
    <3>2. AfterFailure(s, u) \in Handler
      BY <1>3, <2>1, <3>1
    <3>3. QED BY <1>1, <1>3, <2>1, <3>1, <3>2, SettleOnce, HandlerOnce
  <2>2. CASE handler[s].pc # "persist"
    BY <1>4, <1>6, <2>2 DEF SaveFails
  <2>3. QED BY <2>1, <2>2
<1>7. ASSUME NEW s \in Slot, Confirm(s) \/ EmitFails(s) PROVE OnceInv'
  <2>1. (Ack(s, Idle) \/ Nack(s, Idle)) /\ UNCHANGED rows /\ Active(s)
    BY <1>7 DEF Confirm, EmitFails, Active
  <2>2. QED BY <1>1, <2>1, IdleFacts, SettleOnce, HandlerOnce
<1>8. ASSUME NEW m \in Message, Unhandled(m) PROVE OnceInv'
  <2>1. /\ ready[m] > 0 /\ ready' \in AfterLoss("notifications", Minus(ready, m), held)
        /\ handler' = Stale(handler) /\ UNCHANGED rows
    BY <1>8 DEF Unhandled, Deliverable, NoHandler
  <2>2. \A x \in Message : ready'[x] <= ready[x]
    BY <2>1, TakeLoses DEF Consumer
  <2>3. QED BY <1>1, <1>2, <2>1, <2>2, StaleFacts, IdleOnce
<1>9. CASE NotificationsChannelLost \/ NotificationsCrash
  <2>1. /\ ready' \in AfterLoss("notifications", ready, held) /\ UNCHANGED rows
        /\ handler' = Stale(handler) \/ handler' = [s \in Slot |-> Idle]
    BY <1>9 DEF NotificationsChannelLost, NotificationsCrash
  <2>2. \A x \in Message : ready'[x] <= ready[x]
    BY <1>2, <2>1, AfterLossFacts DEF Consumer
  <2>3. QED BY <1>1, <1>2, <2>1, <2>2, StaleFacts, IdleFacts, IdleOnce
<1>10. CASE NotificationsReconnect
    BY <1>1, <1>2, <1>10, IdleOnce DEF NotificationsReconnect, Reconnect, notificationsVars
<1>11. QED BY <1>1, <1>5, <1>6, <1>7, <1>8, <1>9, <1>10, StartOnce, EmitRelayOnce
       DEF Notifications, NotificationsNext

-----------------------------------------------------------------------------
(* tasks-service emits each of the two messages of an event once.          *)
LEMMA PublishOnce ==
    ASSUME OnceInv, IInv', Publish
    PROVE  OnceInv'
<1> USE DEF OnceInv
<1>1. UNCHANGED <<handler, rows, broadcast>> /\ pub \in [Event -> PubState]
    BY DEF Publish, EmitDirect, EmitForward, notificationsVars, gatewayVars, IInv, TypeOK
<1>2. /\ \A m \in Message : ready[m] \in Nat /\ held[m] \in Nat /\ broadcast[m] \in Nat
                            /\ dropped[m] \in Nat
      /\ ready \in [Message -> Nat]
    BY Counts
<1>3. PICK e \in Event :
        \/ /\ pub[e] = "none" /\ pub' = [pub EXCEPT ![e] = "direct"]
           /\ ready' = Plus(ready, Direct(e)) \/ UNCHANGED ready
        \/ /\ pub[e] = "direct" /\ pub'[e] \in {"sent", "failed"}
           /\ \A f \in Event \ {e} : pub'[f] = pub[f]
           /\ (pub'[e] = "sent" /\ ready' = Plus(ready, Forward(e))) \/ UNCHANGED ready
  <2>1. ASSUME NEW e \in Event, NEW p \in Payloads, EmitDirect(e, p)
        PROVE  /\ pub[e] = "none" /\ pub' = [pub EXCEPT ![e] = "direct"]
               /\ ready' = Plus(ready, Direct(e)) \/ UNCHANGED ready
    BY <2>1 DEF EmitDirect
  <2>2. ASSUME NEW e \in Event, EmitForward(e)
        PROVE  /\ pub[e] = "direct" /\ pub'[e] \in {"sent", "failed"}
               /\ \A f \in Event \ {e} : pub'[f] = pub[f]
               /\ (pub'[e] = "sent" /\ ready' = Plus(ready, Forward(e))) \/ UNCHANGED ready
    BY <1>1, <2>2 DEF EmitForward
  <2>3. QED BY <2>1, <2>2 DEF Publish
<1>4. /\ pub[e] # "sent" /\ \A f \in Event \ {e} : pub'[f] = pub[f]
      /\ \A f \in Event : Copies(Relay(f))' = Copies(Relay(f))
      /\ \A f \in Event \ {e} : ready'[Forward(f)] = ready[Forward(f)]
      /\ \A f \in Event \ {e} : Copies(Direct(f))' = Copies(Direct(f))
      /\ Copies(Direct(e))' = Copies(Direct(e))
         \/ (pub[e] = "none" /\ Copies(Direct(e))' = Copies(Direct(e)) + 1)
  <2>1. Direct(e) \in Message /\ Forward(e) \in Message
    BY MessageFacts
  <2>2. CASE ready' = Plus(ready, Direct(e)) /\ pub[e] = "none"
    <3>1. \A m \in Message : ready'[m] = IF m = Direct(e) THEN ready[m] + 1 ELSE ready[m]
      BY <1>2, <2>1, <2>2, PlusFacts
    <3>2. \A f \in Event : Direct(f) = Direct(e) <=> f = e
      BY DEF Direct
    <3>3. QED BY <1>1, <1>2, <1>3, <2>2, <3>1, <3>2, MessageFacts DEF Copies
  <2>3. CASE ready' = Plus(ready, Forward(e))
    <3>1. \A m \in Message : ready'[m] = IF m = Forward(e) THEN ready[m] + 1 ELSE ready[m]
      BY <1>2, <2>1, <2>3, PlusFacts
    <3>2. QED BY <1>1, <1>3, <3>1, MessageFacts DEF Copies
  <2>4. CASE UNCHANGED ready
    BY <1>1, <1>3, <2>4 DEF Copies
  <2>5. QED BY <1>3, <2>2, <2>3, <2>4
<1>5. \A s \in Slot, f \in Event : WorksOn(s, f)' => WorksOn(s, f) /\ f # e
  <2>1. \A s \in Slot, f \in Event : WorksOn(s, f)' => WorksOn(s, f)
    BY <1>1 DEF WorksOn, Active
  <2>2. QED BY <1>4, <2>1 DEF OneWorker
<1>6. pub[e] = "none" => Copies(Direct(e)) = 0
  <2> DEFINE d == Direct(e)
  <2>1. d \in Message /\ d.event = e
    BY MessageFacts DEF Direct
  <2>2. ready[d] + held[d] + broadcast[d] + dropped[d] > 0 => pub[d.event] # "none"
    BY <2>1 DEF IInv, OnlyPublished
  <2>3. ready[d] \in Nat /\ held[d] \in Nat /\ broadcast[d] \in Nat /\ dropped[d] \in Nat
    BY <1>2, <2>1 DEF IInv, TypeOK
  <2> HIDE DEF d
  <2>4. pub[e] = "none" => ready[d] + broadcast[d] = 0
    BY <2>1, <2>2, <2>3
  <2>5. QED BY <2>4 DEF d, Copies
<1>7. OneWorker'
  <2>1. ASSUME NEW s \in Slot, NEW f \in Event, WorksOn(s, f)'
        PROVE  ready'[Forward(f)] = 0 /\ pub'[f] = "sent"
    BY <1>4, <1>5, <2>1 DEF OneWorker
  <2>2. ASSUME NEW s \in Slot, NEW t \in Slot, NEW f \in Event, WorksOn(s, f)', WorksOn(t, f)'
        PROVE  s = t
    BY <1>5, <2>2 DEF OneWorker
  <2>3. QED BY <2>1, <2>2 DEF OneWorker
<1>8. NotYet'
  <2>1. ASSUME NEW f \in Event, ready'[Forward(f)] > 0 \/ pub'[f] # "sent"
        PROVE  Copies(Relay(f))' = 0 /\ \A u \in User : rows'[f][u] = 0
    <3>1. ready[Forward(f)] > 0 \/ pub[f] # "sent"
      BY <1>4, <2>1
    <3>2. QED BY <1>1, <1>4, <3>1 DEF NotYet
  <2>2. ASSUME NEW s \in Slot, NEW f \in Event, WorksOn(s, f)'
        PROVE  /\ \A u \in handler'[s].pending : rows'[f][u] = 0
               /\ handler'[s].pc \in {"persist", "relay"} => Copies(Relay(f))' = 0
    BY <1>1, <1>4, <1>5, <2>2 DEF NotYet
  <2>3. QED BY <2>1, <2>2 DEF NotYet
<1>9. Once'
  <2>1. ASSUME NEW f \in Event
        PROVE  /\ Copies(Direct(f))' <= 1 /\ Copies(Relay(f))' <= 1
               /\ broadcast'[Forward(f)] = 0 /\ \A u \in User : rows'[f][u] <= 1
    BY <1>1, <1>4, <1>6 DEF Once
  <2>2. QED BY <2>1 DEF Once
<1>10. QED BY <1>7, <1>8, <1>9

-----------------------------------------------------------------------------
(* In noAck mode, the mode the consumers run in, nobody is notified twice  *)
(* of one event and no message is broadcast twice, whatever fails: nothing *)
(* is ever redelivered (the noAck default of the transport).               *)
THEOREM NothingTwice == NoAck => (Spec => []DuplicatesArePaidFor)
<1> SUFFICES ASSUME NoAck PROVE Spec => []DuplicatesArePaidFor
    OBVIOUS
<1>1. Init => OnceInv
  <2> SUFFICES ASSUME Init PROVE OneWorker /\ NotYet /\ Once
    BY InitIInv DEF OnceInv
  <2>1. /\ \A s \in Slot : ~Active(s)
        /\ \A m \in Message : ready[m] = 0 /\ broadcast[m] = 0
        /\ \A e \in Event, u \in User : rows[e][u] = 0
    BY DEF Init, BrokerInit, NotificationsInit, GatewayInit, Active, Idle
  <2>2. \A m \in Message : Copies(m) = 0
    BY <2>1 DEF Copies
  <2>3. QED BY <2>1, <2>2, MessageFacts DEF OneWorker, NotYet, Once, WorksOn
<1>2. OnceInv /\ [Next]_vars => OnceInv'
  <2> SUFFICES ASSUME OnceInv, [Next]_vars PROVE OnceInv'
    OBVIOUS
  <2>1. IInv'
    BY NextIInv DEF OnceInv
  <2>2. CASE UNCHANGED vars
    <3>1. UNCHANGED <<pub, broadcast, rows, ready, handler>>
      BY <2>2 DEF vars, brokerVars, notificationsVars, gatewayVars
    <3>2. \A m \in Message : ready[m] \in Nat
      BY Counts DEF OnceInv
    <3>3. QED BY <2>1, <3>1, <3>2, IdleOnce
  <2>3. QED BY <2>1, <2>2, PublishOnce, NotificationsOnce, GatewayOnce DEF Next
<1>3. OnceInv => DuplicatesArePaidFor
  <2> SUFFICES ASSUME OnceInv
               PROVE  /\ \A e \in Event, u \in User : rows[e][u] <= 1
                      /\ \A m \in Message : broadcast[m] <= 1
    BY DEF DuplicatesArePaidFor
  <2>1. \A e \in Event, u \in User : rows[e][u] <= 1
    BY DEF OnceInv, Once
  <2>2. ASSUME NEW m \in Message PROVE broadcast[m] <= 1
    <3>1. PICK e \in Event : m \in {Direct(e), Forward(e), Relay(e)}
      BY DEF Message, Path, Direct, Forward, Relay
    <3>2. \A x \in Message : ready[x] \in Nat /\ broadcast[x] \in Nat
      BY Counts DEF OnceInv
    <3>3. QED BY <3>1, <3>2, MessageFacts DEF OnceInv, Once, Copies
  <2>3. QED BY <2>1, <2>2
<1>4. QED BY <1>1, <1>2, <1>3, PTL DEF Spec

-----------------------------------------------------------------------------
(* With acknowledgements a failure pays for one more row of each user about *)
(* each event, and one more broadcast of each message.  One counts a truth. *)
One(b) == IF b THEN 1 ELSE 0

(* The handlers that may still relay e, and those still to store the       *)
(* notification of u.                                                      *)
Relayers(e) == {s \in Slot : handler[s].event = e /\ handler[s].pc \in {"persist", "relay"}}
Savers(e, u) ==
    {s \in Slot : /\ handler[s].event = e /\ handler[s].pc \in {"persist", "rejected"}
                  /\ u \in handler[s].pending}

(* The broadcasts of the relay of e, and the rows of u about it, that      *)
(* there are or that can still come without another failure.               *)
RelayDebt(e) == ready[Forward(e)] + Copies(Relay(e)) + Cardinality(Relayers(e))
RowDebt(e, u) == ready[Forward(e)] + rows[e][u] + Cardinality(Savers(e, u))

(* The handlers that are running.                                          *)
Busy == {s \in Slot : Active(s)}

(* Nothing is owed before it is published, and beyond the first one every  *)
(* copy, made or still to come, was paid for.                              *)
Paid ==
    \A e \in Event :
        /\ broadcast[Forward(e)] = 0
        /\ Copies(Direct(e)) <= faults + One(pub[e] # "none")
        /\ RelayDebt(e) <= faults + One(pub[e] = "sent")
        /\ \A u \in User : RowDebt(e, u) <= faults + One(pub[e] = "sent")

PaidInv == IInv /\ IsFiniteSet(Busy) /\ Paid

(* Two sets that agree but for x.                                          *)
LEMMA CountsBut ==
    ASSUME NEW S, NEW T, NEW x, IsFiniteSet(S), IsFiniteSet(T), S \ {x} = T \ {x}
    PROVE  /\ Cardinality(S) \in Nat /\ Cardinality(T) \in Nat
           /\ Cardinality(T) + One(x \in S) = Cardinality(S) + One(x \in T)
<1>1. /\ Cardinality(S) \in Nat /\ Cardinality(T) \in Nat
    BY FS_CardinalityType
<1>2. Cardinality(S \ {x}) = IF x \in S THEN Cardinality(S) - 1 ELSE Cardinality(S)
    BY FS_RemoveElement
<1>3. Cardinality(T \ {x}) = IF x \in T THEN Cardinality(T) - 1 ELSE Cardinality(T)
    BY FS_RemoveElement
<1>4. QED BY <1>1, <1>2, <1>3 DEF One

(* Every quantity Paid adds up is a natural number.                        *)
Countable ==
    /\ \A e \in Event : /\ IsFiniteSet(Relayers(e)) /\ Cardinality(Relayers(e)) \in Nat
                        /\ RelayDebt(e) \in Nat /\ Copies(Direct(e)) \in Nat
                        /\ Copies(Relay(e)) \in Nat /\ ready[Forward(e)] \in Nat
    /\ \A e \in Event, u \in User :
           /\ IsFiniteSet(Savers(e, u)) /\ Cardinality(Savers(e, u)) \in Nat
           /\ RowDebt(e, u) \in Nat /\ rows[e][u] \in Nat
    /\ faults \in Nat

LEMMA DebtFacts == IInv /\ IsFiniteSet(Busy) => Countable
<1> SUFFICES ASSUME IInv, IsFiniteSet(Busy) PROVE Countable
    OBVIOUS
<1>1. /\ \A m \in Message : ready[m] \in Nat /\ broadcast[m] \in Nat
      /\ \A e \in Event, u \in User : rows[e][u] \in Nat
      /\ faults \in Nat
    BY MaxFaultsAssumption
    DEF IInv, TypeOK, BrokerTypeOK, GatewayTypeOK, NotificationsTypeOK
<1>2. ASSUME NEW e \in Event
      PROVE  IsFiniteSet(Relayers(e)) /\ Cardinality(Relayers(e)) \in Nat
  <2>1. Relayers(e) \subseteq Busy
    BY DEF Relayers, Busy, Active
  <2>2. QED BY <2>1, FS_Subset, FS_CardinalityType
<1>3. ASSUME NEW e \in Event, NEW u \in User
      PROVE  IsFiniteSet(Savers(e, u)) /\ Cardinality(Savers(e, u)) \in Nat
  <2>1. Savers(e, u) \subseteq Busy
    BY DEF Savers, Busy, Active
  <2>2. QED BY <2>1, FS_Subset, FS_CardinalityType
<1>4. QED BY <1>1, <1>2, <1>3, MessageFacts DEF Countable, RelayDebt, RowDebt, Copies

LEMMA DebtFactsNext == IInv' /\ IsFiniteSet(Busy)' => Countable'
    BY DebtFacts, PTL

(* A step that adds no more to a debt than the failure it takes.           *)
LEMMA Spends ==
    ASSUME PaidInv, IInv', UNCHANGED pub, IsFiniteSet(Busy)',
           NEW d \in {0, 1}, faults' = faults + d,
           \A e \in Event :
               /\ broadcast'[Forward(e)] = broadcast[Forward(e)]
               /\ Copies(Direct(e))' <= Copies(Direct(e)) + d
               /\ RelayDebt(e)' <= RelayDebt(e) + d
               /\ \A u \in User : RowDebt(e, u)' <= RowDebt(e, u) + d
    PROVE  PaidInv'
<1> USE DEF PaidInv
<1>1. /\ \A e \in Event : /\ RelayDebt(e) \in Nat /\ Copies(Direct(e)) \in Nat
                          /\ RelayDebt(e)' \in Nat /\ Copies(Direct(e))' \in Nat
      /\ \A e \in Event, u \in User : RowDebt(e, u) \in Nat /\ RowDebt(e, u)' \in Nat
      /\ faults \in Nat
    BY DebtFacts, DebtFactsNext DEF Countable
<1>2. \A e \in Event : /\ One(pub[e] = "sent") \in Nat /\ One(pub[e] # "none") \in Nat
                       /\ One(pub'[e] = "sent") = One(pub[e] = "sent")
                       /\ One(pub'[e] # "none") = One(pub[e] # "none")
    BY DEF One
<1>3. ASSUME NEW e \in Event
      PROVE  /\ broadcast'[Forward(e)] = 0
             /\ Copies(Direct(e))' <= faults' + One(pub'[e] # "none")
             /\ RelayDebt(e)' <= faults' + One(pub'[e] = "sent")
             /\ \A u \in User : RowDebt(e, u)' <= faults' + One(pub'[e] = "sent")
  <2>1. /\ broadcast[Forward(e)] = 0
        /\ Copies(Direct(e)) <= faults + One(pub[e] # "none")
        /\ RelayDebt(e) <= faults + One(pub[e] = "sent")
        /\ \A u \in User : RowDebt(e, u) <= faults + One(pub[e] = "sent")
    BY DEF Paid
  <2>2. \A u \in User : RowDebt(e, u)' <= faults' + One(pub'[e] = "sent")
    BY <1>1, <1>2, <2>1
  <2>3. QED BY <1>1, <1>2, <2>1, <2>2
<1>4. QED BY <1>3 DEF Paid

(* ... in the queues, or as broadcasts, alone.                             *)
LEMMA QueuesSpend ==
    ASSUME PaidInv, IInv', UNCHANGED <<pub, rows>>, NEW d \in {0, 1}, faults' = faults + d,
           \A s \in Slot : /\ handler'[s].pc = handler[s].pc
                           /\ handler'[s].event = handler[s].event
                           /\ handler'[s].pending = handler[s].pending,
           \A e \in Event :
               /\ broadcast'[Forward(e)] = broadcast[Forward(e)]
               /\ ready'[Forward(e)] + Copies(Relay(e))'
                      <= ready[Forward(e)] + Copies(Relay(e)) + d
               /\ ready'[Forward(e)] <= ready[Forward(e)] + d
               /\ Copies(Direct(e))' <= Copies(Direct(e)) + d
    PROVE  PaidInv'
<1> USE DEF PaidInv
<1>1. /\ Busy' = Busy
      /\ \A e \in Event : Relayers(e)' = Relayers(e)
      /\ \A e \in Event, u \in User : Savers(e, u)' = Savers(e, u)
    BY DEF Busy, Active, Relayers, Savers
<1>2. IsFiniteSet(Busy)'
    BY <1>1
<1>3. /\ \A e \in Event : /\ Cardinality(Relayers(e)) \in Nat /\ ready[Forward(e)] \in Nat
                          /\ Copies(Relay(e)) \in Nat /\ ready'[Forward(e)] \in Nat
                          /\ Copies(Relay(e))' \in Nat
      /\ \A e \in Event, u \in User : rows[e][u] \in Nat /\ Cardinality(Savers(e, u)) \in Nat
    BY <1>2, DebtFacts, DebtFactsNext DEF Countable
<1>4. \A e \in Event : RelayDebt(e)' <= RelayDebt(e) + d
    BY <1>1, <1>3 DEF RelayDebt
<1>5. \A e \in Event, u \in User : RowDebt(e, u)' <= RowDebt(e, u) + d
    BY <1>1, <1>3 DEF RowDebt
<1>6. QED BY <1>2, <1>4, <1>5, Spends

(* ... by the handler in slot s.                                           *)
LEMMA HandlerSpends ==
    ASSUME PaidInv, IInv', UNCHANGED <<pub, broadcast>>, NEW d \in {0, 1},
           faults' = faults + d, NEW s \in Slot,
           \A t \in Slot \ {s} : handler'[t] = handler[t],
           \A e \in Event :
               /\ Copies(Direct(e))' <= Copies(Direct(e)) + d
               /\ ready'[Forward(e)] + Copies(Relay(e))' + One((s \in Relayers(e))')
                      <= ready[Forward(e)] + Copies(Relay(e)) + One(s \in Relayers(e)) + d
               /\ \A u \in User :
                      ready'[Forward(e)] + rows'[e][u] + One((s \in Savers(e, u))')
                          <= ready[Forward(e)] + rows[e][u] + One(s \in Savers(e, u)) + d
    PROVE  PaidInv'
<1> USE DEF PaidInv
<1>1. IsFiniteSet(Busy)'
  <2>1. IsFiniteSet(Busy \cup {s})
    BY FS_AddElement
  <2>2. Busy' \subseteq Busy \cup {s}
    BY DEF Busy, Active
  <2>3. QED BY <2>1, <2>2, FS_Subset
<1>2. ASSUME NEW e \in Event PROVE RelayDebt(e)' <= RelayDebt(e) + d
  <2> DEFINE R == Relayers(e)
  <2>1. R' \ {s} = R \ {s}
    BY DEF Relayers
  <2>2. IsFiniteSet(R) /\ IsFiniteSet(R')
    BY <1>1, DebtFacts, DebtFactsNext DEF Countable
  <2>3. /\ ready[Forward(e)] \in Nat /\ Copies(Relay(e)) \in Nat
        /\ ready'[Forward(e)] \in Nat /\ Copies(Relay(e))' \in Nat
    BY <1>1, DebtFacts, DebtFactsNext DEF Countable
  <2>4. /\ RelayDebt(e) = ready[Forward(e)] + Copies(Relay(e)) + Cardinality(R)
        /\ RelayDebt(e)' = ready'[Forward(e)] + Copies(Relay(e))' + Cardinality(R')
        /\ ready'[Forward(e)] + Copies(Relay(e))' + One(s \in R')
               <= ready[Forward(e)] + Copies(Relay(e)) + One(s \in R) + d
    BY DEF RelayDebt
  <2>5. One(s \in R) \in Nat /\ One(s \in R') \in Nat
    BY DEF One
  <2> HIDE DEF R
  <2>6. /\ Cardinality(R) \in Nat /\ Cardinality(R') \in Nat
        /\ Cardinality(R') + One(s \in R) = Cardinality(R) + One(s \in R')
    BY <2>1, <2>2, CountsBut
  <2>7. QED BY <2>3, <2>4, <2>5, <2>6
<1>3. ASSUME NEW e \in Event, NEW u \in User PROVE RowDebt(e, u)' <= RowDebt(e, u) + d
  <2> DEFINE R == Savers(e, u)
  <2>1. R' \ {s} = R \ {s}
    BY DEF Savers
  <2>2. IsFiniteSet(R) /\ IsFiniteSet(R')
    BY <1>1, DebtFacts, DebtFactsNext DEF Countable
  <2>3. /\ ready[Forward(e)] \in Nat /\ rows[e][u] \in Nat
        /\ ready'[Forward(e)] \in Nat /\ rows'[e][u] \in Nat
    BY <1>1, DebtFacts, DebtFactsNext DEF Countable
  <2>4. /\ RowDebt(e, u) = ready[Forward(e)] + rows[e][u] + Cardinality(R)
        /\ RowDebt(e, u)' = ready'[Forward(e)] + rows'[e][u] + Cardinality(R')
        /\ ready'[Forward(e)] + rows'[e][u] + One(s \in R')
               <= ready[Forward(e)] + rows[e][u] + One(s \in R) + d
    BY DEF RowDebt
  <2>5. One(s \in R) \in Nat /\ One(s \in R') \in Nat
    BY DEF One
  <2> HIDE DEF R
  <2>6. /\ Cardinality(R) \in Nat /\ Cardinality(R') \in Nat
        /\ Cardinality(R') + One(s \in R) = Cardinality(R) + One(s \in R')
    BY <2>1, <2>2, CountsBut
  <2>7. QED BY <2>3, <2>4, <2>5, <2>6
<1>4. QED BY <1>1, <1>2, <1>3, Spends

-----------------------------------------------------------------------------
(* A message taken from a queue and gone, or broadcast and still there.    *)
LEMMA TakeSpends ==
    ASSUME PaidInv, IInv', UNCHANGED <<pub, rows>>, NEW d \in {0, 1}, faults' = faults + d,
           \A s \in Slot : /\ handler'[s].pc = handler[s].pc
                           /\ handler'[s].event = handler[s].event
                           /\ handler'[s].pending = handler[s].pending,
           NEW m \in Message, ready[m] > 0,
           ready' = Minus(ready, m) \/ (d = 1 /\ UNCHANGED ready),
           UNCHANGED broadcast \/ (broadcast' = Plus(broadcast, m)
                                     /\ \A e \in Event : m # Forward(e))
    PROVE  PaidInv'
<1>1. /\ \A x \in Message : ready[x] \in Nat /\ broadcast[x] \in Nat
      /\ ready \in [Message -> Nat] /\ broadcast \in [Message -> Nat]
    BY Counts DEF PaidInv
<1>2. /\ \A x \in Message \ {m} : ready'[x] = ready[x] /\ broadcast'[x] = broadcast[x]
      /\ ready'[m] = ready[m] - 1 \/ (d = 1 /\ ready'[m] = ready[m])
      /\ broadcast'[m] = broadcast[m]
         \/ (broadcast'[m] = broadcast[m] + 1 /\ \A e \in Event : m # Forward(e))
    BY <1>1, MinusFacts, PlusFacts
<1>3. \A x \in Message : ready'[x] <= ready[x] /\ Copies(x)' <= Copies(x) + d
    BY <1>1, <1>2 DEF Copies
<1>4. \A x \in Message : Copies(x) \in Nat /\ Copies(x)' \in Int /\ ready'[x] \in Int
    BY <1>1, <1>2 DEF Copies
<1>5. ASSUME NEW e \in Event
      PROVE  /\ broadcast'[Forward(e)] = broadcast[Forward(e)]
             /\ ready'[Forward(e)] + Copies(Relay(e))'
                    <= ready[Forward(e)] + Copies(Relay(e)) + d
             /\ ready'[Forward(e)] <= ready[Forward(e)] + d
             /\ Copies(Direct(e))' <= Copies(Direct(e)) + d
    BY <1>1, <1>2, <1>3, <1>4, MessageFacts
<1>6. QED BY <1>5, QueuesSpend

(* A broadcast whose acknowledgement is lost is paid for by the loss.      *)
LEMMA GatewayPays ==
    ASSUME ~NoAck, PaidInv, IInv', Gateway
    PROVE  PaidInv'
<1> USE DEF PaidInv
<1>1. UNCHANGED <<handler, rows, pub>>
    BY DEF Gateway, notificationsVars
<1>2. /\ \A m \in Message : ready[m] \in Nat /\ broadcast[m] \in Nat /\ Copies(m) \in Nat
      /\ ready \in [Message -> Nat] /\ held \in [Message -> Nat] /\ faults \in Nat
    BY Counts, MaxFaultsAssumption DEF IInv, TypeOK, BrokerTypeOK, Copies
<1>3. ASSUME NEW d \in {0, 1}, faults' = faults + d, UNCHANGED <<ready, broadcast>>
      PROVE  PaidInv'
  <2>1. \A m \in Message : Copies(m)' = Copies(m)
    BY <1>3 DEF Copies
  <2>2. ASSUME NEW e \in Event
        PROVE  /\ broadcast'[Forward(e)] = broadcast[Forward(e)]
               /\ ready'[Forward(e)] + Copies(Relay(e))'
                      <= ready[Forward(e)] + Copies(Relay(e)) + d
               /\ ready'[Forward(e)] <= ready[Forward(e)] + d
               /\ Copies(Direct(e))' <= Copies(Direct(e)) + d
    BY <1>2, <1>3, <2>1, MessageFacts
  <2>3. QED BY <1>1, <1>3, <2>2, QueuesSpend
<1>4. ASSUME NEW c \in GatewayConsumer, NEW m \in Message, ForwardEvent(c, m)
      PROVE  PaidInv'
  <2>1. /\ PatternOf(m.path, payload[m.event].kind) \in GatewayPatterns /\ ready[m] > 0
        /\ ready' = Minus(ready, m) /\ UNCHANGED faults
        /\ broadcast' = Plus(broadcast, m) \/ UNCHANGED broadcast
    BY <1>4 DEF ForwardEvent, Deliverable, EmitToClients
  <2>2. \A e \in Event : m # Forward(e)
    BY <2>1, TakesNoForward
  <2>3. faults' = faults + 0
    BY <1>2, <2>1
  <2>4. QED BY <1>1, <2>1, <2>2, <2>3, TakeSpends
<1>5. ASSUME NEW c \in GatewayConsumer, NEW m \in Message, ForwardEventAckLost(c, m)
      PROVE  PaidInv'
  <2>1. /\ PatternOf(m.path, payload[m.event].kind) \in GatewayPatterns /\ ready[m] > 0
        /\ UNCHANGED ready /\ faults' = faults + 1
        /\ broadcast' = Plus(broadcast, m) \/ UNCHANGED broadcast
    BY <1>5 DEF ForwardEventAckLost, Deliverable, EmitToClients, Fault
  <2>2. \A e \in Event : m # Forward(e)
    BY <2>1, TakesNoForward
  <2>3. QED BY <1>1, <2>1, <2>2, TakeSpends
<1>6. ASSUME NEW c \in GatewayConsumer, NEW m \in Message, GatewayUnhandled(c, m)
      PROVE  PaidInv'
  <2>1. /\ ready[m] > 0 /\ ready' = Minus(ready, m) /\ UNCHANGED <<broadcast, faults>>
    BY <1>6 DEF GatewayUnhandled, Deliverable, NoHandler, gatewayVars
  <2>2. faults' = faults + 0
    BY <1>2, <2>1
  <2>3. QED BY <1>1, <2>1, <2>2, TakeSpends
<1>7. ASSUME NEW c \in GatewayConsumer, NEW r \in [Message -> Nat], NEW q \in AfterLoss(c, r, held),
             \A m \in Message : r[m] = ready[m]
      PROVE  q \in [Message -> Nat] /\ \A m \in Message : q[m] = ready[m]
    BY <1>2, <1>7, AfterLossFacts DEF GatewayConsumer, Consumer
<1>8. ASSUME NEW c \in GatewayConsumer, GatewayChannelLost(c) PROVE PaidInv'
  <2>1. /\ ready' \in AfterLoss(c, ready, held) /\ UNCHANGED broadcast /\ faults' = faults + 1
    BY <1>8 DEF GatewayChannelLost, Fault, gatewayVars
  <2>2. UNCHANGED ready
    BY <1>2, <1>7, <2>1
  <2>3. QED BY <1>3, <2>1, <2>2
<1>9. CASE GatewayCrash
  <2>1. PICK r \in AfterLoss("gatewayTasks", ready, held) :
            ready' \in AfterLoss("gatewayRelay", r, held)
    BY <1>9 DEF GatewayCrash
  <2>2. UNCHANGED broadcast /\ faults' = faults + 1
    BY <1>9 DEF GatewayCrash, Fault
  <2>3. r \in [Message -> Nat] /\ \A m \in Message : r[m] = ready[m]
    BY <1>2, <1>7 DEF GatewayConsumer
  <2>4. ready' \in [Message -> Nat] /\ \A m \in Message : ready'[m] = ready[m]
    BY <1>7, <2>1, <2>3 DEF GatewayConsumer
  <2>5. UNCHANGED ready
    BY <1>2, <2>4
  <2>6. QED BY <1>3, <2>2, <2>5
<1>10. ASSUME WsListen \/ \E c \in GatewayConsumer : GatewayReconnect(c)
       PROVE  PaidInv'
  <2>1. UNCHANGED <<ready, broadcast, faults>>
    BY <1>10 DEF WsListen, GatewayReconnect, Reconnect, brokerVars, gatewayVars
  <2>2. faults' = faults + 0
    BY <1>2, <2>1
  <2>3. QED BY <1>3, <2>1, <2>2
<1>11. QED BY <1>4, <1>5, <1>6, <1>8, <1>9, <1>10 DEF Gateway, GatewayNext

-----------------------------------------------------------------------------
(* tasks-service publishes each message of an event once.                  *)
LEMMA PublishPays ==
    ASSUME PaidInv, IInv', Publish
    PROVE  PaidInv'
<1> USE DEF PaidInv
<1>1. UNCHANGED <<handler, rows, broadcast>> /\ pub \in [Event -> PubState]
    BY DEF Publish, EmitDirect, EmitForward, notificationsVars, gatewayVars, IInv, TypeOK
<1>2. /\ \A m \in Message : ready[m] \in Nat /\ broadcast[m] \in Nat
      /\ ready \in [Message -> Nat] /\ faults \in Nat
    BY Counts, MaxFaultsAssumption DEF IInv, TypeOK, BrokerTypeOK
<1>3. /\ Busy' = Busy
      /\ \A e \in Event : Relayers(e)' = Relayers(e)
      /\ \A e \in Event, u \in User : Savers(e, u)' = Savers(e, u)
    BY <1>1 DEF Busy, Active, Relayers, Savers
<1>4. Countable
    BY DebtFacts
<1>5. ASSUME NEW e \in Event, NEW m \in {Direct(e), Forward(e)}, NEW d \in {0, 1},
             faults' = faults + d, \A f \in Event \ {e} : pub'[f] = pub[f],
             ready' = Plus(ready, m) \/ UNCHANGED ready,
             \/ /\ m = Direct(e) /\ pub[e] = "none" /\ pub'[e] = "direct"
             \/ /\ m = Forward(e) /\ pub[e] = "direct" /\ pub'[e] \in {"sent", "failed"}
                /\ pub'[e] = "sent" \/ UNCHANGED ready
      PROVE  PaidInv'
  <2>1. /\ m \in Message
        /\ \A x \in Message \ {m} : ready'[x] = ready[x]
        /\ ready'[m] = ready[m] + 1 \/ ready'[m] = ready[m]
    BY <1>2, <1>5, MessageFacts, PlusFacts
  <2>2. ASSUME NEW f \in Event
        PROVE  /\ Copies(Direct(f))' <= faults' + One(pub'[f] # "none")
               /\ ready'[Forward(f)] = ready[Forward(f)]
                  \/ (f = e /\ m = Forward(e) /\ pub'[e] = "sent" /\ pub[e] = "direct"
                        /\ ready'[Forward(f)] = ready[Forward(f)] + 1)
               /\ Copies(Relay(f))' = Copies(Relay(f))
    <3>1. Copies(Relay(f))' = Copies(Relay(f))
      BY <1>1, <1>5, <2>1, MessageFacts DEF Copies
    <3>2. \/ ready'[Forward(f)] = ready[Forward(f)]
          \/ (f = e /\ m = Forward(e) /\ pub'[e] = "sent" /\ pub[e] = "direct"
                        /\ ready'[Forward(f)] = ready[Forward(f)] + 1)
      BY <1>2, <1>5, <2>1, MessageFacts
    <3>3. Copies(Direct(f)) <= faults + One(pub[f] # "none")
      BY DEF Paid
    <3>4. \/ Copies(Direct(f))' = Copies(Direct(f))
          \/ f = e /\ m = Direct(e) /\ Copies(Direct(f))' = Copies(Direct(f)) + 1
      <4>1. \A g \in Event : Direct(g) = Direct(e) <=> g = e
        BY DEF Direct
      <4>2. QED BY <1>1, <1>2, <1>5, <2>1, <4>1, MessageFacts DEF Copies
    <3>5. Copies(Direct(f)) \in Nat
      BY <1>4 DEF Countable
    <3>6. Copies(Direct(f))' <= faults' + One(pub'[f] # "none")
      <4>1. CASE f # e
        BY <1>2, <1>5, <3>3, <3>4, <3>5, <4>1 DEF One
      <4>2. CASE f = e
        BY <1>2, <1>5, <3>3, <3>4, <3>5, <4>2, MessageFacts DEF One
      <4>3. QED BY <4>1, <4>2
    <3>7. QED BY <3>1, <3>2, <3>6
  <2>3. ASSUME NEW f \in Event
        PROVE  /\ RelayDebt(f)' <= faults' + One(pub'[f] = "sent")
               /\ \A u \in User : RowDebt(f, u)' <= faults' + One(pub'[f] = "sent")
    <3>1. /\ RelayDebt(f) <= faults + One(pub[f] = "sent")
          /\ \A u \in User : RowDebt(f, u) <= faults + One(pub[f] = "sent")
      BY DEF Paid
    <3>2. \/ /\ RelayDebt(f)' = RelayDebt(f) /\ \A u \in User : RowDebt(f, u)' = RowDebt(f, u)
             /\ pub[f] = "sent" => pub'[f] = "sent"
          \/ /\ RelayDebt(f)' = RelayDebt(f) + 1
             /\ \A u \in User : RowDebt(f, u)' = RowDebt(f, u) + 1
             /\ pub[f] = "direct" /\ pub'[f] = "sent"
      <4>1. /\ ready[Forward(f)] \in Nat /\ Copies(Relay(f)) \in Nat
            /\ Cardinality(Relayers(f)) \in Nat
            /\ \A u \in User : rows[f][u] \in Nat /\ Cardinality(Savers(f, u)) \in Nat
        BY <1>4 DEF Countable
      <4>2. pub[f] = "sent" => pub'[f] = "sent"
        BY <1>5
      <4>3. CASE ready'[Forward(f)] = ready[Forward(f)]
        BY <1>1, <1>3, <2>2, <4>2, <4>3 DEF RelayDebt, RowDebt
      <4>4. CASE ready'[Forward(f)] # ready[Forward(f)]
        <5>1. /\ pub[f] = "direct" /\ pub'[f] = "sent"
              /\ ready'[Forward(f)] = ready[Forward(f)] + 1
              /\ Copies(Relay(f))' = Copies(Relay(f))
          BY <2>2, <4>4
        <5>2. RelayDebt(f)' = RelayDebt(f) + 1
          BY <1>3, <4>1, <5>1 DEF RelayDebt
        <5>3. \A u \in User : RowDebt(f, u)' = RowDebt(f, u) + 1
          BY <1>1, <1>3, <4>1, <5>1 DEF RowDebt
        <5>4. QED BY <5>1, <5>2, <5>3
      <4>5. QED BY <4>3, <4>4
    <3>3. RelayDebt(f) \in Nat /\ \A u \in User : RowDebt(f, u) \in Nat
      BY <1>4 DEF Countable
    <3>4. QED BY <1>2, <1>5, <3>1, <3>2, <3>3 DEF One
  <2>4. \A f \in Event : broadcast'[Forward(f)] = 0
    BY <1>1 DEF Paid
  <2>5. QED BY <1>3, <2>2, <2>3, <2>4 DEF Paid
<1>6. UNCHANGED faults => faults' = faults + 0
    BY <1>2
<1>7. ASSUME NEW e \in Event, NEW p \in Payloads, EmitDirect(e, p) PROVE PaidInv'
  <2>1. /\ pub[e] = "none" /\ pub' = [pub EXCEPT ![e] = "direct"]
        /\ ready' = Plus(ready, Direct(e)) \/ UNCHANGED ready
        /\ faults' = faults + 1 \/ UNCHANGED faults
    BY <1>7 DEF EmitDirect, Fault
  <2>2. pub'[e] = "direct" /\ \A f \in Event \ {e} : pub'[f] = pub[f]
    BY <1>1, <2>1
  <2>3. QED BY <1>5, <1>6, <2>1, <2>2
<1>8. ASSUME NEW e \in Event, EmitForward(e) PROVE PaidInv'
  <2>1. /\ pub[e] = "direct" /\ pub'[e] \in {"sent", "failed"}
        /\ \A f \in Event \ {e} : pub'[f] = pub[f]
        /\ ready' = Plus(ready, Forward(e)) \/ UNCHANGED ready
        /\ pub'[e] = "sent" \/ UNCHANGED ready
        /\ faults' = faults + 1 \/ UNCHANGED faults
    BY <1>1, <1>8 DEF EmitForward, Fault
  <2>2. QED BY <1>5, <1>6, <2>1
<1>9. QED BY <1>7, <1>8 DEF Publish

-----------------------------------------------------------------------------
(* The handlers.                                                           *)

(* Taking the message, a handler owes what the message did.                *)
LEMMA StartPays ==
    ASSUME PaidInv, IInv', NEW s \in Slot, NEW e \in Event, Start(s, e),
           UNCHANGED <<pub, broadcast>>
    PROVE  PaidInv'
<1> USE DEF PaidInv
<1>1. /\ handler[s].pc = "idle" /\ ready[Forward(e)] > 0 /\ Forward(e) \in Message
      /\ ready' = Minus(ready, Forward(e)) /\ UNCHANGED <<rows, faults>>
    BY MessageFacts DEF Start, Deliverable
<1>2. /\ \A m \in Message : ready[m] \in Nat /\ broadcast[m] \in Nat
      /\ \A m \in Message : ready'[m] = IF m = Forward(e) THEN ready[m] - 1 ELSE ready[m]
      /\ faults \in Nat
    BY <1>1, Counts, MinusFacts, MaxFaultsAssumption DEF IInv, TypeOK, BrokerTypeOK
<1>3. handler'[s].event = e /\ \A t \in Slot \ {s} : handler'[t] = handler[t]
    BY Counts DEF Start
<1>4. ASSUME NEW f \in Event
      PROVE  /\ Copies(Direct(f))' <= Copies(Direct(f)) + 0
             /\ ready'[Forward(f)] + Copies(Relay(f))' + One((s \in Relayers(f))')
                    <= ready[Forward(f)] + Copies(Relay(f)) + One(s \in Relayers(f)) + 0
             /\ \A u \in User :
                    ready'[Forward(f)] + rows'[f][u] + One((s \in Savers(f, u))')
                        <= ready[Forward(f)] + rows[f][u] + One(s \in Savers(f, u)) + 0
  <2>1. /\ Copies(Direct(f))' = Copies(Direct(f)) /\ Copies(Relay(f))' = Copies(Relay(f))
        /\ Copies(Direct(f)) \in Nat /\ Copies(Relay(f)) \in Nat
        /\ ready'[Forward(f)] = IF f = e THEN ready[Forward(f)] - 1 ELSE ready[Forward(f)]
        /\ ready[Forward(f)] \in Nat
        /\ \A u \in User : rows[f][u] \in Nat /\ rows'[f][u] = rows[f][u]
    BY <1>1, <1>2, MessageFacts DEF Copies, IInv, TypeOK, NotificationsTypeOK
  <2>2. f # e => s \notin Relayers(f)' /\ \A u \in User : s \notin Savers(f, u)'
    BY <1>3 DEF Relayers, Savers
  <2>3. QED BY <2>1, <2>2 DEF One
<1>5. faults' = faults + 0
    BY <1>1, <1>2
<1>6. QED BY <1>3, <1>4, <1>5, HandlerSpends

(* The save for u is over, its row stored or not.                          *)
LEMMA SavePays ==
    ASSUME PaidInv, IInv', UNCHANGED <<pub, broadcast>>, NEW d \in {0, 1}, faults' = faults + d,
           NEW s \in Slot, NEW u \in User, u \in handler[s].pending,
           handler[s].pc \in {"persist", "rejected"},
           NEW next \in Handler, handler' = [handler EXCEPT ![s] = next],
           \/ next.pc = "idle"
           \/ next.event = handler[s].event /\ next.pending = handler[s].pending \ {u},
           next.pc \in {"persist", "relay"} => handler[s].pc = "persist",
           rows' = rows \/ AddRow(handler[s].event, u),
           \/ UNCHANGED ready
           \/ d = 1 /\ next.pc \in {"idle", "rejected"} /\ ready' = Plus(ready, Forward(handler[s].event))
    PROVE  PaidInv'
<1> USE DEF PaidInv
<1>1. PICK e \in Event : e = handler[s].event
    BY Counts
<1>2. /\ \A m \in Message : ready[m] \in Nat /\ broadcast[m] \in Nat
      /\ ready \in [Message -> Nat] /\ rows \in [Event -> [User -> Nat]]
      /\ handler'[s] = next /\ \A t \in Slot \ {s} : handler'[t] = handler[t]
    BY Counts DEF IInv, TypeOK, NotificationsTypeOK
<1>3. /\ \A m \in Message \ {Forward(e)} : ready'[m] = ready[m]
      /\ \/ ready'[Forward(e)] = ready[Forward(e)]
         \/ d = 1 /\ ready'[Forward(e)] = ready[Forward(e)] + 1 /\ next.pc \in {"idle", "rejected"}
    BY <1>1, <1>2, MessageFacts, PlusFacts
<1>4. ASSUME NEW f \in Event
      PROVE  /\ Copies(Direct(f))' <= Copies(Direct(f)) + d
             /\ ready'[Forward(f)] + Copies(Relay(f))' + One((s \in Relayers(f))')
                    <= ready[Forward(f)] + Copies(Relay(f)) + One(s \in Relayers(f)) + d
             /\ \A v \in User :
                    ready'[Forward(f)] + rows'[f][v] + One((s \in Savers(f, v))')
                        <= ready[Forward(f)] + rows[f][v] + One(s \in Savers(f, v)) + d
  <2>1. /\ Copies(Direct(f))' = Copies(Direct(f)) /\ Copies(Relay(f))' = Copies(Relay(f))
        /\ Copies(Direct(f)) \in Nat /\ Copies(Relay(f)) \in Nat
        /\ ready[Forward(f)] \in Nat
        /\ \/ ready'[Forward(f)] = ready[Forward(f)]
           \/ f = e /\ d = 1 /\ ready'[Forward(f)] = ready[Forward(f)] + 1
              /\ next.pc \in {"idle", "rejected"}
    BY <1>2, <1>3, MessageFacts DEF Copies
  <2>2. (s \in Relayers(f))' => s \in Relayers(f) /\ next.pc \in {"persist", "relay"}
    BY <1>2 DEF Relayers
  <2>3. ASSUME NEW v \in User
        PROVE  ready'[Forward(f)] + rows'[f][v] + One((s \in Savers(f, v))')
                   <= ready[Forward(f)] + rows[f][v] + One(s \in Savers(f, v)) + d
    <3>1. rows[f][v] \in Nat
          /\ \/ rows'[f][v] = rows[f][v]
             \/ f = e /\ v = u /\ rows'[f][v] = rows[f][v] + 1
      BY <1>1, <1>2 DEF AddRow
    <3>2. (s \in Savers(f, v))' => s \in Savers(f, v) /\ v # u
      BY <1>2 DEF Savers
    <3>3. s \in Savers(e, u)
      BY <1>1 DEF Savers
    <3>4. QED BY <2>1, <3>1, <3>2, <3>3 DEF One
  <2>4. QED BY <2>1, <2>2, <2>3 DEF One
<1>5. QED BY <1>2, <1>4, HandlerSpends

(* The handler has ended, its message back on the queue or not.            *)
LEMMA EndPays ==
    ASSUME PaidInv, IInv', UNCHANGED <<pub, broadcast, rows>>, NEW d \in {0, 1},
           faults' = faults + d, NEW s \in Slot, handler[s].pc \in {"relay", "confirm"},
           handler' = [handler EXCEPT ![s] = Idle],
           UNCHANGED ready \/ (d = 1 /\ ready' = Plus(ready, Forward(handler[s].event)))
    PROVE  PaidInv'
<1> USE DEF PaidInv
<1>1. PICK e \in Event : e = handler[s].event
    BY Counts
<1>2. /\ \A m \in Message : ready[m] \in Nat /\ broadcast[m] \in Nat
      /\ ready \in [Message -> Nat] /\ rows \in [Event -> [User -> Nat]]
      /\ handler'[s] = Idle /\ \A t \in Slot \ {s} : handler'[t] = handler[t]
    BY Counts DEF IInv, TypeOK, NotificationsTypeOK
<1>3. /\ \A m \in Message \ {Forward(e)} : ready'[m] = ready[m]
      /\ \/ ready'[Forward(e)] = ready[Forward(e)]
         \/ d = 1 /\ ready'[Forward(e)] = ready[Forward(e)] + 1
    BY <1>1, <1>2, MessageFacts, PlusFacts
<1>4. ASSUME NEW f \in Event
      PROVE  /\ Copies(Direct(f))' <= Copies(Direct(f)) + d
             /\ ready'[Forward(f)] + Copies(Relay(f))' + One((s \in Relayers(f))')
                    <= ready[Forward(f)] + Copies(Relay(f)) + One(s \in Relayers(f)) + d
             /\ \A v \in User :
                    ready'[Forward(f)] + rows'[f][v] + One((s \in Savers(f, v))')
                        <= ready[Forward(f)] + rows[f][v] + One(s \in Savers(f, v)) + d
  <2>1. /\ Copies(Direct(f))' = Copies(Direct(f)) /\ Copies(Relay(f))' = Copies(Relay(f))
        /\ Copies(Direct(f)) \in Nat /\ Copies(Relay(f)) \in Nat
        /\ ready[Forward(f)] \in Nat
        /\ ready'[Forward(f)] = ready[Forward(f)]
           \/ (d = 1 /\ ready'[Forward(f)] = ready[Forward(f)] + 1)
        /\ \A v \in User : rows[f][v] \in Nat /\ rows'[f][v] = rows[f][v]
    BY <1>2, <1>3, MessageFacts DEF Copies
  <2>2. ~(s \in Relayers(f))' /\ \A v \in User : ~(s \in Savers(f, v))'
    BY <1>2, IdleFacts DEF Relayers, Savers
  <2>3. QED BY <2>1, <2>2 DEF One
<1>5. QED BY <1>2, <1>4, HandlerSpends

(* A handler that has relayed is no longer about to.                       *)
LEMMA EmitRelayPays ==
    ASSUME PaidInv, IInv', NEW s \in Slot, EmitRelay(s), UNCHANGED <<pub, broadcast>>
    PROVE  PaidInv'
<1> USE DEF PaidInv
<1>1. PICK e \in Event : e = handler[s].event
    BY Counts DEF EmitRelay
<1>2. /\ handler[s].pc = "relay" /\ ready' = Plus(ready, Relay(e)) /\ UNCHANGED <<rows, faults>>
      /\ Relay(e) \in Message
    BY <1>1, MessageFacts DEF EmitRelay
<1>3. /\ \A m \in Message : ready[m] \in Nat /\ broadcast[m] \in Nat
      /\ \A m \in Message : ready'[m] = IF m = Relay(e) THEN ready[m] + 1 ELSE ready[m]
      /\ faults \in Nat /\ rows \in [Event -> [User -> Nat]]
    BY <1>2, Counts, PlusFacts, MaxFaultsAssumption
    DEF IInv, TypeOK, BrokerTypeOK, NotificationsTypeOK
<1>4. /\ handler'[s].pc = "confirm" /\ handler'[s].event = e
      /\ \A t \in Slot \ {s} : handler'[t] = handler[t]
    BY <1>1, Counts DEF EmitRelay, Handler
<1>5. ASSUME NEW f \in Event
      PROVE  /\ Copies(Direct(f))' <= Copies(Direct(f)) + 0
             /\ ready'[Forward(f)] + Copies(Relay(f))' + One((s \in Relayers(f))')
                    <= ready[Forward(f)] + Copies(Relay(f)) + One(s \in Relayers(f)) + 0
             /\ \A v \in User :
                    ready'[Forward(f)] + rows'[f][v] + One((s \in Savers(f, v))')
                        <= ready[Forward(f)] + rows[f][v] + One(s \in Savers(f, v)) + 0
  <2>1. /\ Copies(Direct(f))' = Copies(Direct(f)) /\ Copies(Direct(f)) \in Nat
        /\ Copies(Relay(f))' = IF f = e THEN Copies(Relay(f)) + 1 ELSE Copies(Relay(f))
        /\ Copies(Relay(f)) \in Nat /\ ready[Forward(f)] \in Nat
        /\ ready'[Forward(f)] = ready[Forward(f)]
        /\ \A v \in User : rows[f][v] \in Nat /\ rows'[f][v] = rows[f][v]
    BY <1>2, <1>3, MessageFacts DEF Copies
  <2>2. ~(s \in Relayers(f))' /\ \A v \in User : ~(s \in Savers(f, v))'
    BY <1>4 DEF Relayers, Savers
  <2>3. s \in Relayers(e)
    BY <1>1, <1>2 DEF Relayers
  <2>4. QED BY <2>1, <2>2, <2>3 DEF One
<1>6. faults' = faults + 0
    BY <1>2, <1>3
<1>7. QED BY <1>4, <1>5, <1>6, HandlerSpends

(* What the lost channel held is back on the queue; no more than one copy  *)
(* of a message was held.                                                  *)
LEMMA LossPays ==
    ASSUME ~NoAck, PaidInv, IInv', NotificationsChannelLost \/ NotificationsCrash,
           UNCHANGED <<pub, broadcast>>
    PROVE  PaidInv'
<1> USE DEF PaidInv
<1>1. /\ UNCHANGED rows /\ faults' = faults + 1
      /\ \A m \in Message : ready'[m] = ready[m] + held[m]
      /\ handler' = Stale(handler) \/ handler' = [s \in Slot |-> Idle]
    BY DEF NotificationsChannelLost, NotificationsCrash, AfterLoss, Fault
<1>2. \A m \in Message : ready[m] \in Nat /\ held[m] \in Nat /\ broadcast[m] \in Nat
    BY Counts DEF IInv, TypeOK, GatewayTypeOK
<1>3. ASSUME NEW e \in Event
      PROVE  /\ Copies(Direct(e))' = Copies(Direct(e)) /\ Copies(Relay(e))' = Copies(Relay(e))
             /\ ready'[Forward(e)] <= ready[Forward(e)] + 1 /\ ready'[Forward(e)] \in Nat
  <2>1. held[Direct(e)] = 0 /\ held[Relay(e)] = 0
    BY <1>2, MessageFacts DEF IInv, OnlyForwardsHeld, Direct, Relay
  <2>2. held[Forward(e)] <= 1
    BY <1>2, MessageFacts DEF IInv, SingleOwner
  <2>3. QED BY <1>1, <1>2, <2>1, <2>2, MessageFacts DEF Copies
<1>4. \A s \in Slot : \/ handler'[s].pc = "idle"
                      \/ /\ handler'[s].pc = handler[s].pc
                         /\ handler'[s].event = handler[s].event
                         /\ handler'[s].pending = handler[s].pending
    BY <1>1, Counts, StaleFacts, IdleFacts
<1>5. /\ Busy' \subseteq Busy
      /\ \A e \in Event : Relayers(e)' \subseteq Relayers(e)
      /\ \A e \in Event, u \in User : Savers(e, u)' \subseteq Savers(e, u)
    BY <1>4 DEF Busy, Active, Relayers, Savers
<1>6. IsFiniteSet(Busy)'
    BY <1>5, FS_Subset
<1>7. Countable /\ Countable'
    BY <1>6, DebtFacts, DebtFactsNext
<1>8. ASSUME NEW e \in Event PROVE RelayDebt(e)' <= RelayDebt(e) + 1
  <2>1. Cardinality(Relayers(e)') <= Cardinality(Relayers(e))
    BY <1>5, <1>7, FS_Subset DEF Countable
  <2>2. /\ RelayDebt(e) = ready[Forward(e)] + Copies(Relay(e)) + Cardinality(Relayers(e))
        /\ RelayDebt(e)' = ready'[Forward(e)] + Copies(Relay(e))' + Cardinality(Relayers(e)')
    BY DEF RelayDebt
  <2>3. QED BY <1>3, <1>7, <2>1, <2>2 DEF Countable
<1>9. ASSUME NEW e \in Event, NEW u \in User PROVE RowDebt(e, u)' <= RowDebt(e, u) + 1
  <2>1. Cardinality(Savers(e, u)') <= Cardinality(Savers(e, u))
    BY <1>5, <1>7, FS_Subset DEF Countable
  <2>2. /\ RowDebt(e, u) = ready[Forward(e)] + rows[e][u] + Cardinality(Savers(e, u))
        /\ RowDebt(e, u)' = ready'[Forward(e)] + rows'[e][u] + Cardinality(Savers(e, u)')
    BY DEF RowDebt
  <2>3. QED BY <1>1, <1>3, <1>7, <2>1, <2>2 DEF Countable
<1>10. ASSUME NEW e \in Event
       PROVE  /\ broadcast'[Forward(e)] = broadcast[Forward(e)]
              /\ Copies(Direct(e))' <= Copies(Direct(e)) + 1
    BY <1>3, <1>7 DEF Countable
<1>11. QED BY <1>1, <1>6, <1>8, <1>9, <1>10, Spends

(* The requeue of a rejected message is paid for by the save or the emit   *)
(* that failed.                                                            *)
LEMMA NotificationsPay ==
    ASSUME ~NoAck, PaidInv, IInv', Notifications
    PROVE  PaidInv'
<1> USE DEF PaidInv
<1>1. UNCHANGED <<pub, broadcast>>
    BY DEF Notifications, gatewayVars
<1>2. faults \in Nat /\ handler \in [Slot -> Handler] /\ \A m \in Message : ready[m] \in Nat
    BY Counts, MaxFaultsAssumption DEF IInv, TypeOK, BrokerTypeOK
<1>3. UNCHANGED faults => faults' = faults + 0
    BY <1>2
<1>4. ASSUME NEW s \in Slot, NEW u \in User, handler[s].pc \in {"persist", "rejected"},
             u \in handler[s].pending
      PROVE  /\ AfterSave(s, u) \in Handler
             /\ \/ AfterSave(s, u).pc = "idle"
                \/ /\ AfterSave(s, u).event = handler[s].event
                   /\ AfterSave(s, u).pending = handler[s].pending \ {u}
             /\ AfterSave(s, u).pc \in {"persist", "relay"} => handler[s].pc = "persist"
             /\ handler[s].pc = "persist" =>
                   /\ AfterFailure(s, u) \in Handler
                   /\ AfterFailure(s, u).pc \in {"idle", "rejected"}
                   /\ \/ AfterFailure(s, u).pc = "idle"
                      \/ /\ AfterFailure(s, u).event = handler[s].event
                         /\ AfterFailure(s, u).pending = handler[s].pending \ {u}
    BY <1>2, <1>4, IdleFacts DEF AfterSave, AfterFailure, Handler
<1>5. ASSUME NEW s \in Slot, NEW next \in Handler, Ack(s, next) \/ Nack(s, next)
      PROVE  /\ handler' = [handler EXCEPT ![s] = next]
             /\ UNCHANGED ready \/ ready' = Plus(ready, Forward(handler[s].event))
             /\ Ack(s, next) => UNCHANGED ready
  <2>1. handler[s].link \in {"live", "stale"}
    BY <1>2 DEF Handler
  <2>2. CASE Ack(s, next)
    BY <2>1, <2>2 DEF Ack, Throws
  <2>3. CASE Nack(s, next)
    BY <2>1, <2>3 DEF Nack, Ack, Throws
  <2>4. QED BY <1>5, <2>2, <2>3
<1>6. ASSUME NEW s \in Slot, NEW u \in User, Save(s, u) PROVE PaidInv'
    BY <1>1, <1>3, <1>4, <1>6, SavePays DEF Save, brokerVars
<1>7. ASSUME NEW s \in Slot, NEW u \in User, SaveFails(s, u) PROVE PaidInv'
  <2>1. /\ faults' = faults + 1 /\ u \in handler[s].pending
        /\ handler[s].pc \in {"persist", "rejected"}
        /\ rows' = rows \/ AddRow(handler[s].event, u)
    BY <1>7 DEF SaveFails, Fault
  <2>2. CASE handler[s].pc = "persist"
    <3> DEFINE next == AfterFailure(s, u)
    <3>1. Nack(s, next)
      BY <1>7, <2>2 DEF SaveFails
    <3>2. /\ next \in Handler /\ next.pc \in {"idle", "rejected"}
          /\ \/ next.pc = "idle"
             \/ next.event = handler[s].event /\ next.pending = handler[s].pending \ {u}
      BY <1>4, <2>1, <2>2
    <3> HIDE DEF next
    <3>3. /\ handler' = [handler EXCEPT ![s] = next]
          /\ UNCHANGED ready \/ ready' = Plus(ready, Forward(handler[s].event))
      BY <1>5, <3>1, <3>2
    <3>4. QED BY <1>1, <2>1, <2>2, <3>2, <3>3, SavePays
  <2>3. CASE handler[s].pc # "persist"
    <3>1. handler' = [handler EXCEPT ![s] = AfterSave(s, u)] /\ UNCHANGED ready
      BY <1>7, <2>3 DEF SaveFails
    <3>2. QED BY <1>1, <1>4, <2>1, <3>1, SavePays
  <2>4. QED BY <2>2, <2>3
<1>8. ASSUME NEW s \in Slot, Confirm(s) PROVE PaidInv'
  <2>1. handler[s].pc = "confirm" /\ Ack(s, Idle) /\ UNCHANGED <<rows, faults>>
    BY <1>8 DEF Confirm
  <2>2. QED BY <1>1, <1>3, <1>5, <2>1, IdleFacts, EndPays
<1>9. ASSUME NEW s \in Slot, EmitFails(s) PROVE PaidInv'
  <2>1. /\ handler[s].pc \in {"relay", "confirm"} /\ Nack(s, Idle) /\ UNCHANGED rows
        /\ faults' = faults + 1
    BY <1>9 DEF EmitFails, Fault
  <2>2. QED BY <1>1, <1>5, <2>1, IdleFacts, EndPays
<1>10. ASSUME NEW m \in Message, Unhandled(m) PROVE PaidInv'
  <2>1. /\ ready[m] > 0 /\ ready' = Minus(ready, m) /\ UNCHANGED <<rows, faults, handler>>
    BY <1>10 DEF Unhandled, Deliverable, NoHandler
  <2>2. QED BY <1>1, <1>3, <2>1, TakeSpends
<1>11. CASE NotificationsReconnect
  <2>1. UNCHANGED <<ready, rows, faults, handler>>
    BY <1>11 DEF NotificationsReconnect, Reconnect, notificationsVars
  <2>2. \A m \in Message : Copies(m)' = Copies(m) /\ Copies(m) \in Nat
    BY <1>1, <1>2, <2>1 DEF Copies, IInv, TypeOK, GatewayTypeOK
  <2>3. ASSUME NEW e \in Event
        PROVE  /\ broadcast'[Forward(e)] = broadcast[Forward(e)]
               /\ ready'[Forward(e)] + Copies(Relay(e))'
                      <= ready[Forward(e)] + Copies(Relay(e)) + 0
               /\ ready'[Forward(e)] <= ready[Forward(e)] + 0
               /\ Copies(Direct(e))' <= Copies(Direct(e)) + 0
    BY <1>1, <1>2, <2>1, <2>2, MessageFacts
  <2>4. QED BY <1>1, <1>3, <2>1, <2>3, QueuesSpend
<1>12. QED BY <1>1, <1>6, <1>7, <1>8, <1>9, <1>10, <1>11, StartPays, EmitRelayPays, LossPays
       DEF Notifications, NotificationsNext

-----------------------------------------------------------------------------
(* The bound in the mode the handlers' ack and nack are written for.       *)
LEMMA PaidWithAcks == ~NoAck => (Spec => []DuplicatesArePaidFor)
<1> SUFFICES ASSUME ~NoAck PROVE Spec => []DuplicatesArePaidFor
    OBVIOUS
<1>1. Init => PaidInv
  <2> SUFFICES ASSUME Init PROVE PaidInv
    OBVIOUS
  <2>1. IInv
    BY InitIInv
  <2>2. Busy = {} /\ \A e \in Event : Relayers(e) = {} /\ \A u \in User : Savers(e, u) = {}
    BY DEF Init, NotificationsInit, Busy, Active, Relayers, Savers, Idle
  <2>3. /\ \A m \in Message : ready[m] = 0 /\ broadcast[m] = 0
        /\ \A e \in Event, u \in User : rows[e][u] = 0
        /\ faults = 0
    BY DEF Init, BrokerInit, NotificationsInit, GatewayInit
  <2>4. IsFiniteSet({}) /\ Cardinality({}) = 0
    BY FS_EmptySet
  <2>5. ASSUME NEW e \in Event
        PROVE  /\ broadcast[Forward(e)] = 0 /\ Copies(Direct(e)) = 0
               /\ RelayDebt(e) = 0 /\ \A u \in User : RowDebt(e, u) = 0
    <3>1. /\ ready[Forward(e)] = 0 /\ broadcast[Forward(e)] = 0
          /\ Copies(Direct(e)) = 0 /\ Copies(Relay(e)) = 0
      BY <2>3, MessageFacts DEF Copies
    <3>2. /\ Cardinality(Relayers(e)) = 0
          /\ \A u \in User : Cardinality(Savers(e, u)) = 0
      BY <2>2, <2>4
    <3>3. RelayDebt(e) = 0
      BY <3>1, <3>2 DEF RelayDebt
    <3>4. \A u \in User : RowDebt(e, u) = 0
      BY <2>3, <3>1, <3>2 DEF RowDebt
    <3>5. QED BY <3>1, <3>3, <3>4
  <2>6. QED BY <2>1, <2>2, <2>3, <2>4, <2>5 DEF PaidInv, Paid, One
<1>2. PaidInv /\ [Next]_vars => PaidInv'
  <2> SUFFICES ASSUME PaidInv, [Next]_vars PROVE PaidInv'
    OBVIOUS
  <2>1. IInv'
    BY NextIInv DEF PaidInv
  <2>2. CASE UNCHANGED vars
    <3>1. UNCHANGED <<pub, broadcast, rows, ready, handler, faults>>
      BY <2>2 DEF vars, brokerVars, notificationsVars, gatewayVars
    <3>2. /\ Busy' = Busy /\ \A e \in Event : Relayers(e)' = Relayers(e)
          /\ \A e \in Event, u \in User : Savers(e, u)' = Savers(e, u)
      BY <3>1 DEF Busy, Active, Relayers, Savers
    <3>3. Paid'
      BY <3>1, <3>2 DEF PaidInv, Paid, RelayDebt, RowDebt, Copies
    <3>4. QED BY <2>1, <3>2, <3>3 DEF PaidInv
  <2>3. QED BY <2>1, <2>2, PublishPays, NotificationsPay, GatewayPays DEF Next
<1>3. PaidInv => DuplicatesArePaidFor
  <2> SUFFICES ASSUME PaidInv
               PROVE  /\ \A e \in Event, u \in User : rows[e][u] <= 1 + faults
                      /\ \A m \in Message : broadcast[m] <= 1 + faults
    BY DEF DuplicatesArePaidFor
  <2>1. Countable
    BY DebtFacts DEF PaidInv
  <2>2. \A e \in Event : One(pub[e] = "sent") \in 0..1 /\ One(pub[e] # "none") \in 0..1
    BY DEF One
  <2>3. ASSUME NEW e \in Event, NEW u \in User PROVE rows[e][u] <= 1 + faults
    BY <2>1, <2>2 DEF Countable, PaidInv, Paid, RowDebt
  <2>4. ASSUME NEW m \in Message PROVE broadcast[m] <= 1 + faults
    <3>1. PICK e \in Event : m \in {Direct(e), Forward(e), Relay(e)}
      BY DEF Message, Path, Direct, Forward, Relay
    <3>2. \A x \in Message : ready[x] \in Nat /\ broadcast[x] \in Nat
      BY Counts DEF PaidInv
    <3>3. RelayDebt(e) >= Copies(Relay(e))
      BY <2>1 DEF Countable, RelayDebt
    <3>4. /\ Copies(Relay(e)) <= 1 + faults /\ Copies(Direct(e)) <= 1 + faults
          /\ broadcast[Forward(e)] = 0
      BY <2>1, <2>2, <3>3 DEF Countable, PaidInv, Paid
    <3>5. QED BY <2>1, <3>1, <3>2, <3>4, MessageFacts DEF Copies, Countable
  <2>5. QED BY <2>3, <2>4
<1>4. QED BY <1>1, <1>2, <1>3, PTL DEF Spec

(* In either mode a user gets a second notification of one event, and the  *)
(* clients a second broadcast of one message, no more often than a save, a *)
(* publication, a connection or a process has failed: no handler looks for *)
(* an earlier row, but no interleaving alone repeats anything.             *)
THEOREM RepeatsArePaidFor == Spec => []DuplicatesArePaidFor
    BY NothingTwice, PaidWithAcks
==============================================================================
