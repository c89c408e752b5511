------------------------- MODULE EventPipelineProofs -------------------------
(***************************************************************************)
(* TLAPS proofs about EventPipeline: IInv is inductive, for every set of   *)
(* events, users and handlers, both acknowledgement modes and any number   *)
(* of failures.                                                            *)
(***************************************************************************)
EXTENDS EventPipeline, TLAPS

-----------------------------------------------------------------------------
(* The operators the model is built from.                                  *)

(* The three messages of an event are messages, and distinct.              *)
LEMMA MessageFacts ==
    ASSUME NEW e \in Event, NEW f \in Event
    PROVE  /\ Direct(e) \in Message /\ Forward(e) \in Message /\ Relay(e) \in Message
           /\ Direct(e) # Forward(f) /\ Direct(e) # Relay(f) /\ Forward(e) # Relay(f)
           /\ (Forward(e) = Forward(f)) <=> (e = f)
           /\ (Relay(e) = Relay(f)) <=> (e = f)
           /\ Direct(e).event = e /\ Forward(e).event = e /\ Relay(e).event = e
    BY DEF Message, Path, Direct, Forward, Relay

(* Plus and Minus change the count of one message.                         *)
LEMMA PlusFacts ==
    ASSUME NEW b \in [Message -> Nat], NEW m \in Message
    PROVE  /\ Plus(b, m) \in [Message -> Nat]
           /\ \A x \in Message : Plus(b, m)[x] = IF x = m THEN b[x] + 1 ELSE b[x]
    BY DEF Plus

(* Taking a message that is there.                                         *)
LEMMA MinusFacts ==
    ASSUME NEW b \in [Message -> Nat], NEW m \in Message, b[m] > 0
    PROVE  /\ Minus(b, m) \in [Message -> Nat]
           /\ \A x \in Message : Minus(b, m)[x] = IF x = m THEN b[x] - 1 ELSE b[x]
    BY DEF Minus

(* Losing a channel invents no message: without acknowledgements the queue *)
(* can only shrink, with them it gains what the lost channel held.         *)
LEMMA AfterLossFacts ==
    ASSUME NEW c \in Consumer, NEW r \in [Message -> Nat], NEW h \in [Message -> Nat],
           NEW q \in AfterLoss(c, r, h)
    PROVE  /\ q \in [Message -> Nat]
           /\ NoAck => \A m \in Message : q[m] = 0 \/ q[m] = r[m]
           /\ ~NoAck /\ c = "notifications" => \A m \in Message : q[m] = r[m] + h[m]
           /\ ~NoAck /\ c # "notifications" => \A m \in Message : q[m] = r[m]
<1>1. CASE NoAck
  <2>1. PICK lost \in SUBSET Message :
            q = [m \in Message |-> IF m \in lost THEN 0 ELSE r[m]]
    BY <1>1 DEF AfterLoss
  <2>2. QED BY <1>1, <2>1
<1>2. CASE ~NoAck
  <2>1. q = [m \in Message |-> IF c = "notifications" THEN r[m] + h[m] ELSE r[m]]
    BY <1>2 DEF AfterLoss
  <2>2. QED BY <1>2, <2>1
<1>3. QED BY <1>1, <1>2

(* The recipients of a payload are users, never its actor, and only users  *)
(* the payload names.                                                      *)
LEMMA RecipientsFacts ==
    ASSUME NEW p \in Payload
    PROVE  /\ Recipients(p) \subseteq User
           /\ p.actor \notin Recipients(p)
           /\ Recipients(p) \subseteq
                p.recipients \cup p.assignees \cup ({p.actor} \cap User)
    BY DEF Recipients, ResolveTaskRecipients, ResolveCommentRecipients, Payload

(* A notification goes to users the payload names, its actor excepted      *)
(* (resolveTaskRecipients, resolveCommentRecipients).                      *)
LEMMA RecipientsConcerned ==
    ASSUME NEW p \in Payload
    PROVE  Recipients(p) \subseteq (p.recipients \cup p.assignees) \ {p.actor}
    BY DEF Recipients, ResolveTaskRecipients, ResolveCommentRecipients, Payload

(* The payloads tasks-service builds are payloads.                         *)
LEMMA LegalPayloadFacts == LegalPayload \subseteq Payload
    BY DEF LegalPayload, Payload, TaskPayload, CommentPayload, Kind

-----------------------------------------------------------------------------
(* The initial states.                                                     *)
LEMMA InitIInv == Init => IInv
<1> SUFFICES ASSUME Init PROVE IInv
    OBVIOUS
<1>1. TypeOK
    BY MaxFaultsAssumption
    DEF Init, TypeOK, BrokerInit, BrokerTypeOK, NotificationsInit, NotificationsTypeOK,
        GatewayInit, GatewayTypeOK, PubState, Idle, Handler
<1>2. OnlyPublished /\ SingleOwner /\ OnlyForwardsHeld /\ Progress
         /\ StoredBeforeRelay /\ OnlyConcernedUsersNotified
    BY MessageFacts
    DEF Init, OnlyPublished, SingleOwner, OnlyForwardsHeld, Progress, StoredBeforeRelay,
        OnlyConcernedUsersNotified, Relayed, Owns, Active, BrokerInit, NotificationsInit,
        GatewayInit, Idle
<1>3. QED BY <1>1, <1>2 DEF IInv

-----------------------------------------------------------------------------
(* The actions of the gateway.                                             *)

(* The queues lose messages, or pass them on to the clients.               *)
Conserves ==
    /\ ready' \in [Message -> Nat]
    /\ dropped' \in [Message -> Nat]
    /\ broadcast' \in [Message -> Nat]
    /\ \A m \in Message :
          /\ ready'[m] <= ready[m]
          /\ ready'[m] + broadcast'[m] + dropped'[m] > 0 =>
                ready[m] + broadcast[m] + dropped[m] > 0

(* A step that only conserves messages preserves everything but the types  *)
(* of the variables it changes.                                            *)
LEMMA ConservingStep ==
    ASSUME IInv, Conserves, UNCHANGED <<payload, held, handler, rows, pub>>
    PROVE  /\ OnlyPublished' /\ SingleOwner' /\ OnlyForwardsHeld' /\ Progress'
           /\ StoredBeforeRelay' /\ OnlyConcernedUsersNotified'
<1> USE DEF IInv
<1>1. OnlyPublished'
    BY DEF OnlyPublished, Conserves, Active, TypeOK, BrokerTypeOK, GatewayTypeOK
<1>2. SingleOwner'
    BY MessageFacts DEF SingleOwner, Conserves, Owns, TypeOK, BrokerTypeOK
<1>3. Progress'
    BY DEF Progress, Active, Stored
<1>4. StoredBeforeRelay'
    BY MessageFacts
    DEF StoredBeforeRelay, Relayed, Stored, Conserves, TypeOK, BrokerTypeOK, GatewayTypeOK
<1>5. OnlyConcernedUsersNotified'
    BY DEF OnlyConcernedUsersNotified
<1>6. OnlyForwardsHeld'
    BY DEF OnlyForwardsHeld
<1>7. QED BY <1>1, <1>2, <1>3, <1>4, <1>5, <1>6

(* TypeOK of a step of the gateway.                                        *)
LEMMA GatewayTypes ==
    ASSUME IInv, Conserves, UNCHANGED <<payload, held, handler, rows, pub>>,
           chan' \in [Consumer -> {"open", "closed"}], faults' \in 0..MaxFaults,
           ws' \in {"starting", "listening"}
    PROVE  TypeOK'
    BY DEF IInv, TypeOK, BrokerTypeOK, NotificationsTypeOK, GatewayTypeOK, Conserves

(* What a consumer does with the message m it takes from its queue:        *)
(* broadcasting it or discarding it conserves messages.                    *)
LEMMA TakeConserves ==
    ASSUME IInv, NEW c \in GatewayConsumer, NEW m \in Message, ready[m] > 0,
           \/ broadcast' = Plus(broadcast, m) /\ dropped' = dropped
           \/ dropped' = Plus(dropped, m) /\ broadcast' = broadcast,
           \/ ready' = ready
           \/ ready' = Minus(ready, m)
           \/ NoAck /\ ready' \in AfterLoss(c, Minus(ready, m), held)
    PROVE  Conserves
<1>1. /\ ready \in [Message -> Nat] /\ held \in [Message -> Nat]
      /\ dropped \in [Message -> Nat] /\ broadcast \in [Message -> Nat]
    BY DEF IInv, TypeOK, BrokerTypeOK, GatewayTypeOK
<1>2. c \in Consumer
    BY DEF GatewayConsumer, Consumer
<1>3. /\ ready' \in [Message -> Nat]
      /\ \A x \in Message : ready'[x] <= ready[x]
    BY <1>1, <1>2, MinusFacts, AfterLossFacts
<1>4. /\ dropped' \in [Message -> Nat] /\ broadcast' \in [Message -> Nat]
      /\ \A x \in Message \ {m} : broadcast'[x] = broadcast[x] /\ dropped'[x] = dropped[x]
    BY <1>1, PlusFacts
<1>5. QED BY <1>1, <1>3, <1>4 DEF Conserves

(* Losing a channel of the gateway conserves messages.                     *)
LEMMA LossConserves ==
    ASSUME IInv, NEW c \in GatewayConsumer, NEW d \in GatewayConsumer,
           NEW r \in AfterLoss(c, ready, held), ready' \in AfterLoss(d, r, held) \cup {r},
           UNCHANGED <<dropped, broadcast>>
    PROVE  Conserves
<1>1. /\ ready \in [Message -> Nat] /\ held \in [Message -> Nat]
      /\ dropped \in [Message -> Nat] /\ broadcast \in [Message -> Nat]
    BY DEF IInv, TypeOK, BrokerTypeOK, GatewayTypeOK
<1>2. c \in Consumer \ {"notifications"} /\ d \in Consumer \ {"notifications"}
    BY DEF GatewayConsumer, Consumer
<1>3. r \in [Message -> Nat] /\ \A m \in Message : r[m] <= ready[m]
    BY <1>1, <1>2, AfterLossFacts
<1>4. ready' \in [Message -> Nat] /\ \A m \in Message : ready'[m] <= r[m]
    BY <1>1, <1>2, <1>3, AfterLossFacts
<1>5. QED BY <1>1, <1>3, <1>4 DEF Conserves

(* Every action of the gateway preserves the invariant.                    *)
LEMMA GatewayStep ==
    ASSUME IInv, Gateway
    PROVE  IInv'
<1> DEFINE Frame == UNCHANGED <<payload, held, handler, rows, pub>>
           Types == /\ chan' \in [Consumer -> {"open", "closed"}]
                    /\ faults' \in 0..MaxFaults
                    /\ ws' \in {"starting", "listening"}
<1>0. /\ chan \in [Consumer -> {"open", "closed"}]
      /\ faults \in 0..MaxFaults
      /\ ws \in {"starting", "listening"}
      /\ ready \in [Message -> Nat] /\ dropped \in [Message -> Nat]
      /\ broadcast \in [Message -> Nat]
    BY DEF IInv, TypeOK, BrokerTypeOK, GatewayTypeOK
<1>1. UNCHANGED <<handler, rows, pub>>
    BY DEF Gateway, notificationsVars
<1>2. CASE WsListen
  <2>1. Conserves
      BY <1>0, <1>2 DEF WsListen, brokerVars, Conserves
  <2>2. Frame /\ Types
      BY <1>0, <1>1, <1>2 DEF WsListen, brokerVars
  <2>3. QED BY <2>1, <2>2, ConservingStep, GatewayTypes DEF IInv
<1>3. ASSUME NEW c \in GatewayConsumer, NEW m \in Message,
             ForwardEvent(c, m) \/ ForwardEventAckLost(c, m)
      PROVE  IInv'
  <2>1. Conserves
      BY <1>3, TakeConserves DEF ForwardEvent, ForwardEventAckLost, EmitToClients, Deliverable
  <2>2. Frame /\ Types
      BY <1>0, <1>1, <1>3, MaxFaultsAssumption DEF ForwardEvent, ForwardEventAckLost, Fault
  <2>3. QED BY <2>1, <2>2, ConservingStep, GatewayTypes DEF IInv
<1>4. ASSUME NEW c \in GatewayConsumer, NEW m \in Message, GatewayUnhandled(c, m)
      PROVE  IInv'
  <2>1. Conserves
      BY <1>4, TakeConserves DEF GatewayUnhandled, NoHandler, Deliverable, gatewayVars
  <2>2. Frame /\ Types
      BY <1>0, <1>1, <1>4 DEF GatewayUnhandled, NoHandler, gatewayVars
  <2>3. QED BY <2>1, <2>2, ConservingStep, GatewayTypes DEF IInv
<1>5. ASSUME NEW c \in GatewayConsumer, GatewayChannelLost(c)
      PROVE  IInv'
  <2>1. Conserves
      BY <1>5, LossConserves DEF GatewayChannelLost, gatewayVars
  <2>2. Frame /\ UNCHANGED ws
      BY <1>1, <1>5 DEF GatewayChannelLost, gatewayVars
  <2>3. chan' \in [Consumer -> {"open", "closed"}]
      BY <1>0, <1>5 DEF GatewayChannelLost
  <2>4. faults' \in 0..MaxFaults
      BY <1>0, <1>5, MaxFaultsAssumption DEF GatewayChannelLost, Fault
  <2>5. QED BY <1>0, <2>1, <2>2, <2>3, <2>4, ConservingStep, GatewayTypes DEF IInv
<1>6. CASE GatewayCrash
  <2>1. Conserves
      BY <1>6, LossConserves DEF GatewayCrash, GatewayConsumer
  <2>2. Frame /\ Types
      BY <1>0, <1>1, <1>6, MaxFaultsAssumption DEF GatewayCrash, Fault
  <2>3. QED BY <2>1, <2>2, ConservingStep, GatewayTypes DEF IInv
<1>7. ASSUME NEW c \in GatewayConsumer, GatewayReconnect(c)
      PROVE  IInv'
  <2>1. Conserves
      BY <1>0, <1>7 DEF GatewayReconnect, Reconnect, gatewayVars, Conserves
  <2>2. Frame /\ Types
      BY <1>0, <1>1, <1>7 DEF GatewayReconnect, Reconnect, gatewayVars
  <2>3. QED BY <2>1, <2>2, ConservingStep, GatewayTypes DEF IInv
<1>8. QED BY <1>2, <1>3, <1>4, <1>5, <1>6, <1>7 DEF Gateway, GatewayNext

-----------------------------------------------------------------------------
(* The emits of tasks-service.                                             *)

(* Publishing a message of e adds no message of another event.             *)
LEMMA OnlyPublishedStep ==
    ASSUME IInv, NEW e \in Event, pub'[e] # "none",
           \A f \in Event \ {e} : pub'[f] = pub[f],
           \A m \in Message : m.event # e => ready'[m] = ready[m],
           UNCHANGED <<held, dropped, broadcast, handler, rows>>
    PROVE  OnlyPublished'
<1>1. \A f \in Event : pub[f] # "none" => pub'[f] # "none"
  OBVIOUS
<1>2. ASSUME NEW m \in Message, (ready[m] + held[m] + broadcast[m] + dropped[m])' > 0
      PROVE  pub'[m.event] # "none"
  <2>1. CASE m.event = e
    BY <2>1
  <2>2. CASE m.event # e
    <3>1. m.event \in Event
      BY DEF Message
    <3>2. pub[m.event] # "none"
      BY <1>2, <2>2 DEF IInv, OnlyPublished
    <3>3. QED BY <1>1, <3>1, <3>2
  <2>3. QED BY <2>1, <2>2
<1>3. \A s \in Slot : Active(s)' => (pub[handler[s].event] # "none")'
  BY <1>1 DEF IInv, OnlyPublished, Active, TypeOK, NotificationsTypeOK
<1>4. QED BY <1>1, <1>2, <1>3 DEF IInv, OnlyPublished

(* So does every emit of tasks-service.                                    *)
LEMMA PublishStep ==
    ASSUME IInv, Publish
    PROVE  IInv'
<1>0. /\ ready \in [Message -> Nat] /\ held \in [Message -> Nat]
      /\ dropped \in [Message -> Nat] /\ broadcast \in [Message -> Nat]
      /\ pub \in [Event -> PubState] /\ handler \in [Slot -> Handler]
      /\ rows \in [Event -> [User -> Nat]]
      /\ payload \in [Event -> Payload \cup {NoPayload}]
    BY DEF IInv, TypeOK, BrokerTypeOK, NotificationsTypeOK, GatewayTypeOK
<1>1. ASSUME NEW e \in Event, NEW p \in Payloads, EmitDirect(e, p)
      PROVE  IInv'
  <2>1. /\ UNCHANGED <<held, chan, dropped, handler, rows, ws, broadcast>>
        /\ pub[e] = "none"
        /\ payload' = [payload EXCEPT ![e] = p]
        /\ pub' = [pub EXCEPT ![e] = "direct"]
        /\ ready' = Plus(ready, Direct(e)) \/ ready' = ready
        /\ faults' \in 0..MaxFaults
    BY <1>1, MaxFaultsAssumption
    DEF EmitDirect, Fault, notificationsVars, gatewayVars, IInv, TypeOK, BrokerTypeOK
  <2>2. p \in Payload
    BY PayloadsAssumption, LegalPayloadFacts
  <2>3. /\ ready' \in [Message -> Nat]
        /\ \A m \in Message : m # Direct(e) => ready'[m] = ready[m]
    <3>0. Direct(e) \in Message
      BY MessageFacts
    <3>1. CASE ready' = Plus(ready, Direct(e))
      BY <1>0, <3>0, <3>1, PlusFacts
    <3>2. CASE ready' = ready
      BY <1>0, <3>2
    <3>3. QED BY <2>1, <3>1, <3>2
  <2>4. \A s \in Slot : handler[s].pc # "idle" => handler[s].event \in Event \ {e}
    <3>1. \A s \in Slot : handler[s].pc # "idle" => handler[s].event \in Event
      BY DEF IInv, TypeOK, NotificationsTypeOK
    <3>2. \A s \in Slot : handler[s].pc # "idle" => pub[handler[s].event] # "none"
      BY DEF IInv, OnlyPublished, Active
    <3>3. QED BY <2>1, <3>1, <3>2
  <2>5. TypeOK'
    <3>1. payload' \in [Event -> Payload \cup {NoPayload}] /\ pub' \in [Event -> PubState]
      BY <1>0, <2>1, <2>2 DEF PubState
    <3>2. BrokerTypeOK'
      BY <2>1, <2>3, <3>1 DEF IInv, TypeOK, BrokerTypeOK
    <3>3. NotificationsTypeOK'
      BY <1>0, <2>1, <2>4 DEF IInv, TypeOK, NotificationsTypeOK
    <3>4. \A f \in Event : pub'[f] # "none" => payload'[f] \in Payload
      BY <1>0, <2>1, <2>2 DEF IInv, TypeOK
    <3>5. QED BY <2>1, <3>1, <3>2, <3>3, <3>4 DEF IInv, TypeOK, GatewayTypeOK
  <2>6. OnlyPublished'
    BY <1>0, <2>1, <2>3, MessageFacts, OnlyPublishedStep
  <2>7. SingleOwner'
    BY <1>0, <2>1, <2>3, MessageFacts DEF IInv, SingleOwner, Owns
  <2>8. Progress'
    BY <1>0, <2>1, <2>4 DEF IInv, Progress, Active, Stored
  <2>9. ~Relayed(e)' /\ \A f \in Event \ {e} : Relayed(f)' <=> Relayed(f)
    BY <1>0, <2>1, <2>3, MessageFacts DEF IInv, OnlyPublished, Relayed
  <2>10. StoredBeforeRelay'
    BY <1>0, <2>1, <2>9 DEF IInv, StoredBeforeRelay, Stored
  <2>11. OnlyConcernedUsersNotified'
    BY <1>0, <2>1 DEF IInv, OnlyConcernedUsersNotified, OnlyPublished
  <2>12. OnlyForwardsHeld'
    BY <2>1 DEF IInv, OnlyForwardsHeld
  <2>13. QED BY <2>5, <2>6, <2>7, <2>8, <2>10, <2>11, <2>12 DEF IInv
<1>2. ASSUME NEW e \in Event, EmitForward(e)
      PROVE  IInv'
  <2>1. /\ UNCHANGED <<payload, held, chan, dropped, handler, rows, ws, broadcast>>
        /\ pub[e] = "direct"
        /\ \/ ready' = Plus(ready, Forward(e)) /\ pub' = [pub EXCEPT ![e] = "sent"]
           \/ ready' = ready /\ pub' = [pub EXCEPT ![e] = "failed"]
        /\ faults' \in 0..MaxFaults
    BY <1>2, MaxFaultsAssumption
    DEF EmitForward, Fault, notificationsVars, gatewayVars, IInv, TypeOK, BrokerTypeOK
  <2>2. /\ ready' \in [Message -> Nat]
        /\ \A m \in Message : m # Forward(e) => ready'[m] = ready[m]
        /\ ready'[Forward(e)] =
              IF pub'[e] = "sent" THEN ready[Forward(e)] + 1 ELSE ready[Forward(e)]
        /\ pub' \in [Event -> PubState] /\ pub'[e] # "none"
        /\ \A f \in Event \ {e} : pub'[f] = pub[f]
    <3>0. Forward(e) \in Message
      BY MessageFacts
    <3>1. CASE ready' = Plus(ready, Forward(e)) /\ pub' = [pub EXCEPT ![e] = "sent"]
      BY <1>0, <3>0, <3>1, PlusFacts DEF PubState
    <3>2. CASE ready' = ready /\ pub' = [pub EXCEPT ![e] = "failed"]
      BY <1>0, <3>2 DEF PubState
    <3>3. QED BY <2>1, <3>1, <3>2
  <2>3. TypeOK'
    BY <1>0, <2>1, <2>2
    DEF IInv, TypeOK, BrokerTypeOK, NotificationsTypeOK, GatewayTypeOK
  <2>4. OnlyPublished'
    BY <2>1, <2>2, MessageFacts, OnlyPublishedStep
  <2>5. ready[Forward(e)] = 0 /\ held[Forward(e)] = 0
    <3>1. pub[e] # "sent"
      BY <2>1
    <3>2. ready[Forward(e)] + held[Forward(e)] = 0
      BY <3>1 DEF IInv, SingleOwner
    <3>3. ready[Forward(e)] \in Nat /\ held[Forward(e)] \in Nat
      BY <1>0, MessageFacts
    <3>4. QED BY <3>2, <3>3
  <2>6. SingleOwner'
    BY <1>0, <2>1, <2>2, <2>5, MessageFacts DEF IInv, SingleOwner, Owns
  <2>7. Progress' /\ OnlyForwardsHeld' /\ OnlyConcernedUsersNotified'
    BY <2>1
    DEF IInv, Progress, Active, Stored, OnlyForwardsHeld, OnlyConcernedUsersNotified
  <2>8. StoredBeforeRelay'
    BY <2>1, <2>2, MessageFacts DEF IInv, StoredBeforeRelay, Stored, Relayed
  <2>9. QED BY <2>3, <2>4, <2>6, <2>7, <2>8 DEF IInv
<1>3. QED BY <1>1, <1>2 DEF Publish
-----------------------------------------------------------------------------
(* The handlers of notifications-service.  IInv is preserved by a step     *)
(* whose bags, rows and handlers each change in the way stated here; the   *)
(* ownership of messages is treated apart.                                 *)

(* What the invariant says of the handler in slot s.                       *)
SlotOK(s) ==
    LET h == handler[s] IN
    Active(s) =>
        /\ h.event \in Event
        /\ pub[h.event] # "none"
        /\ h.pending \subseteq Recipients(payload[h.event])
        /\ h.pc = "persist" =>
              \A u \in Recipients(payload[h.event]) \ h.pending : rows[h.event][u] > 0
        /\ h.pc \in {"relay", "confirm"} => Stored(h.event)

(* Messages appear for published events only, and on gateway.events only   *)
(* once the notifications of the event are stored.                         *)
BagsKept ==
    /\ ready' \in [Message -> Nat]
    /\ held' \in [Message -> Nat]
    /\ dropped' \in [Message -> Nat]
    /\ \A m \in Message : held'[m] > 0 => m.path = "forward"
    /\ \A e \in Event :
          ready'[Forward(e)] + held'[Forward(e)] <= ready[Forward(e)] + held[Forward(e)]
    /\ \A m \in Message :
          ready'[m] + held'[m] + dropped'[m] > 0 =>
              \/ ready[m] + held[m] + dropped[m] > 0
              \/ pub[m.event] # "none" /\ (m.path = "relay" => Stored(m.event))

(* Rows are only added, for the recipients of published events.            *)
RowsKept ==
    /\ rows' \in [Event -> [User -> Nat]]
    /\ \A e \in Event, u \in User :
          /\ rows'[e][u] >= rows[e][u]
          /\ rows'[e][u] > 0 =>
                rows[e][u] > 0 \/ (pub[e] # "none" /\ u \in Recipients(payload[e]))

TypesKept ==
    /\ chan' \in [Consumer -> {"open", "closed"}]
    /\ faults' \in 0..MaxFaults
    /\ handler' \in [Slot -> Handler]

(* No handler comes to own a message.                                      *)
OwnersKept ==
    ~NoAck => \A s \in Slot, e \in Event :
        Owns(s, e)' => Owns(s, e) /\ held'[Forward(e)] = held[Forward(e)]

Facts ==
    /\ payload \in [Event -> Payload \cup {NoPayload}]
    /\ ready \in [Message -> Nat] /\ held \in [Message -> Nat]
    /\ dropped \in [Message -> Nat] /\ broadcast \in [Message -> Nat]
    /\ chan \in [Consumer -> {"open", "closed"}]
    /\ faults \in 0..MaxFaults
    /\ handler \in [Slot -> Handler]
    /\ rows \in [Event -> [User -> Nat]]
    /\ \A e \in Event : pub[e] # "none" => payload[e] \in Payload

(* The invariant gives the facts the steps below start from.               *)
LEMMA IInvFacts ==
    ASSUME IInv
    PROVE  Facts /\ \A s \in Slot : SlotOK(s)
<1>1. Facts
  BY DEF IInv, TypeOK, BrokerTypeOK, NotificationsTypeOK, GatewayTypeOK, Facts
<1>2. ASSUME NEW s \in Slot PROVE SlotOK(s)
  BY DEF IInv, TypeOK, NotificationsTypeOK, OnlyPublished, Progress, SlotOK, Active
<1>3. QED BY <1>1, <1>2

(* Later rows keep the notifications of an event stored.                   *)
LEMMA StoredStable ==
    ASSUME IInv, RowsKept, UNCHANGED payload, NEW e \in Event, Stored(e), pub[e] # "none"
    PROVE  Stored(e)'
<1>1. Recipients(payload[e]) \subseteq User
  BY IInvFacts, RecipientsFacts DEF Facts
<1>2. QED
  BY <1>1, IInvFacts DEF Facts, RowsKept, Stored

(* A step of notifications-service that keeps the rows, the queues, the    *)
(* handlers and the owners in order preserves the invariant.               *)
LEMMA KeptStep ==
    ASSUME IInv, BagsKept, RowsKept, TypesKept, \A s \in Slot : SlotOK(s)', SingleOwner',
           UNCHANGED <<payload, pub, ws, broadcast>>
    PROVE  IInv'
<1>0. Facts
  BY IInvFacts
<1>1. TypeOK'
  <2>1. BrokerTypeOK'
    BY DEF IInv, TypeOK, BrokerTypeOK, BagsKept, TypesKept
  <2>2. NotificationsTypeOK'
    BY <1>0 DEF Facts, NotificationsTypeOK, TypesKept, RowsKept, SlotOK, Active
  <2>3. QED BY <2>1, <2>2 DEF IInv, TypeOK, GatewayTypeOK
<1>2. OnlyPublished'
  <2>1. ASSUME NEW m \in Message, (ready[m] + held[m] + broadcast[m] + dropped[m])' > 0
        PROVE  pub[m.event] # "none"
    <3>1. /\ ready[m] \in Nat /\ held[m] \in Nat /\ dropped[m] \in Nat
          /\ broadcast[m] \in Nat
          /\ ready'[m] \in Nat /\ held'[m] \in Nat /\ dropped'[m] \in Nat
      BY <1>0 DEF Facts, BagsKept
    <3>2. CASE broadcast[m] > 0
      BY <3>1, <3>2 DEF IInv, OnlyPublished
    <3>3. CASE ready'[m] + held'[m] + dropped'[m] > 0
      BY <3>1, <3>3 DEF IInv, OnlyPublished, BagsKept
    <3>4. QED BY <2>1, <3>1, <3>2, <3>3
  <2>2. \A s \in Slot : Active(s)' => (pub[handler[s].event] # "none")'
    BY DEF SlotOK, Active
  <2>3. \A e \in Event, u \in User : rows'[e][u] > 0 => pub[e] # "none"
    BY DEF RowsKept, IInv, OnlyPublished
  <2>4. QED BY <2>1, <2>2, <2>3 DEF OnlyPublished
<1>3. OnlyForwardsHeld'
  BY DEF BagsKept, OnlyForwardsHeld
<1>4. Progress'
  BY DEF SlotOK, Progress, Active
<1>5. StoredBeforeRelay'
  <2>1. ASSUME NEW e \in Event, Relayed(e)'
        PROVE  Stored(e) /\ pub[e] # "none"
    <3>1. Relay(e) \in Message /\ Relay(e).event = e /\ Relay(e).path = "relay"
      BY MessageFacts DEF Relay
    <3>2. /\ ready[Relay(e)] \in Nat /\ held[Relay(e)] \in Nat /\ dropped[Relay(e)] \in Nat
          /\ broadcast[Relay(e)] \in Nat
          /\ ready'[Relay(e)] \in Nat /\ held'[Relay(e)] \in Nat
          /\ dropped'[Relay(e)] \in Nat
      BY <1>0, <3>1 DEF Facts, BagsKept
    <3>3. held[Relay(e)] = 0
      BY <3>1, <3>2 DEF IInv, OnlyForwardsHeld
    <3>4. Relayed(e) => Stored(e) /\ pub[e] # "none"
      BY <3>1, <3>2 DEF IInv, StoredBeforeRelay, OnlyPublished, Relayed
    <3>5. CASE ready'[Relay(e)] + held'[Relay(e)] + dropped'[Relay(e)] > 0
      BY <3>1, <3>2, <3>3, <3>4, <3>5 DEF BagsKept, Relayed
    <3>6. CASE broadcast[Relay(e)] > 0
      BY <3>2, <3>4, <3>6 DEF Relayed
    <3>7. QED BY <2>1, <3>2, <3>5, <3>6 DEF Relayed
  <2>2. QED BY <2>1, StoredStable DEF StoredBeforeRelay
<1>6. OnlyConcernedUsersNotified'
  <2>1. ASSUME NEW e \in Event, NEW u \in User, rows'[e][u] > 0
        PROVE  /\ u # payload[e].actor
               /\ u \in payload[e].recipients \cup payload[e].assignees
    <3>1. CASE rows[e][u] > 0
      BY <3>1 DEF IInv, OnlyConcernedUsersNotified
    <3>2. CASE pub[e] # "none" /\ u \in Recipients(payload[e])
      BY <1>0, <3>2, RecipientsConcerned DEF Facts
    <3>3. QED BY <2>1, <3>1, <3>2 DEF RowsKept
  <2>2. QED BY <2>1 DEF OnlyConcernedUsersNotified
<1>7. QED BY <1>1, <1>2, <1>3, <1>4, <1>5, <1>6 DEF IInv

(* Ownership, when no handler comes to own a message.                      *)
LEMMA OwnersStep ==
    ASSUME IInv, BagsKept, OwnersKept, UNCHANGED pub
    PROVE  SingleOwner'
<1>1. ASSUME NEW e \in Event
      PROVE  /\ (ready[Forward(e)] + held[Forward(e)])' <= 1
             /\ pub[e] # "sent" => (ready[Forward(e)] + held[Forward(e)])' = 0
  <2>1. Forward(e) \in Message
    BY MessageFacts
  <2>2. /\ ready[Forward(e)] \in Nat /\ held[Forward(e)] \in Nat
        /\ ready'[Forward(e)] \in Nat /\ held'[Forward(e)] \in Nat
    BY <2>1, IInvFacts DEF Facts, BagsKept
  <2>3. /\ ready[Forward(e)] + held[Forward(e)] <= 1
        /\ pub[e] # "sent" => ready[Forward(e)] + held[Forward(e)] = 0
    BY DEF IInv, SingleOwner
  <2>4. ready'[Forward(e)] + held'[Forward(e)] <= ready[Forward(e)] + held[Forward(e)]
    BY DEF BagsKept
  <2>5. QED BY <2>2, <2>3, <2>4
<1>2. \A s \in Slot, e \in Event : ~NoAck /\ Owns(s, e)' => held'[Forward(e)] = 1
  BY DEF IInv, SingleOwner, OwnersKept
<1>3. \A s, t \in Slot, e \in Event : ~NoAck /\ Owns(s, e)' /\ Owns(t, e)' => s = t
  BY DEF IInv, SingleOwner, OwnersKept
<1>4. QED BY <1>1, <1>2, <1>3 DEF SingleOwner

(* A handler that does not move stays as the invariant wants it.           *)
LEMMA SlotKept ==
    ASSUME IInv, RowsKept, UNCHANGED <<payload, pub>>, NEW s \in Slot,
           \/ handler'[s].pc = "idle"
           \/ /\ handler'[s].pc = handler[s].pc
              /\ handler'[s].event = handler[s].event
              /\ handler'[s].pending = handler[s].pending
    PROVE  SlotOK(s)'
<1>1. SlotOK(s) /\ Facts
  BY IInvFacts
<1>2. CASE handler'[s].pc = "idle"
  BY <1>2 DEF SlotOK, Active
<1>3. CASE handler'[s].pc # "idle"
  <2> DEFINE e == handler[s].event
  <2>1. /\ handler'[s].pc = handler[s].pc /\ handler[s].pc # "idle"
        /\ handler'[s].event = e /\ handler'[s].pending = handler[s].pending
    BY <1>3
  <2>2. /\ e \in Event /\ pub[e] # "none"
        /\ handler[s].pending \subseteq Recipients(payload[e])
    BY <1>1, <2>1 DEF SlotOK, Active
  <2>3. handler[s].pc \in {"relay", "confirm"} => Stored(e)'
    BY <1>1, <2>1, <2>2, StoredStable DEF SlotOK, Active
  <2>4. Recipients(payload[e]) \subseteq User
    BY <1>1, <2>2, RecipientsFacts DEF Facts
  <2>5. handler[s].pc = "persist" =>
            \A u \in Recipients(payload[e]) \ handler[s].pending : rows'[e][u] > 0
    BY <1>1, <2>1, <2>2, <2>4 DEF SlotOK, Active, RowsKept, Facts
  <2>6. QED BY <2>1, <2>2, <2>3, <2>5 DEF SlotOK
<1>4. QED BY <1>2, <1>3
(* Closing the channel changes nothing of a handler but its link.          *)
LEMMA StaleFacts ==
    ASSUME NEW h \in [Slot -> Handler]
    PROVE  /\ Stale(h) \in [Slot -> Handler]
           /\ \A s \in Slot :
                 /\ Stale(h)[s].pc = h[s].pc
                 /\ Stale(h)[s].event = h[s].event
                 /\ Stale(h)[s].pending = h[s].pending
                 /\ h[s].pc # "idle" => Stale(h)[s].link = "stale"
    BY DEF Stale, Handler

(* A handler that has ended.                                               *)
LEMMA IdleFacts == Idle \in Handler /\ Idle.pc = "idle"
    BY DEF Idle, Handler

(* The bags after notifications-service has lost its channel.              *)
LEMMA LossKeepsBags ==
    ASSUME IInv, NEW r \in [Message -> Nat], \A m \in Message : r[m] <= ready[m],
           ready' \in AfterLoss("notifications", r, held),
           held' = HeldAfterLoss("notifications", held) \/ (NoAck /\ held' = held),
           dropped' \in [Message -> Nat],
           \A m \in Message : dropped'[m] > 0 =>
               ready[m] + held[m] + dropped[m] > 0
    PROVE  BagsKept
<1>0. Facts /\ "notifications" \in Consumer
  BY IInvFacts DEF Consumer
<1>1. held' \in [Message -> Nat] /\ \A m \in Message : held'[m] <= held[m]
  BY <1>0 DEF Facts, HeldAfterLoss
<1>2. ready' \in [Message -> Nat]
      /\ \A m \in Message : ready'[m] + held'[m] <= ready[m] + held[m]
  <2>1. ready' \in [Message -> Nat]
    BY <1>0, AfterLossFacts DEF Facts
  <2>2. CASE NoAck
    <3>1. \A m \in Message : ready'[m] = 0 \/ ready'[m] = r[m]
      BY <1>0, <2>2, AfterLossFacts DEF Facts
    <3>2. QED BY <1>0, <1>1, <2>1, <3>1 DEF Facts
  <2>3. CASE ~NoAck
    <3>1. held' = [m \in Message |-> 0]
      BY <2>3 DEF HeldAfterLoss
    <3>2. \A m \in Message : ready'[m] = r[m] + held[m]
      BY <1>0, <2>3, AfterLossFacts DEF Facts
    <3>3. QED BY <1>0, <1>1, <2>1, <3>1, <3>2 DEF Facts
  <2>4. QED BY <2>1, <2>2, <2>3
<1>3. \A m \in Message : held'[m] > 0 => m.path = "forward"
  BY <1>0, <1>1 DEF IInv, OnlyForwardsHeld, Facts
<1>4. \A e \in Event : ready'[Forward(e)] + held'[Forward(e)]
                          <= ready[Forward(e)] + held[Forward(e)]
  BY <1>2, MessageFacts
<1>5. ASSUME NEW m \in Message, ready'[m] + held'[m] + dropped'[m] > 0
      PROVE  ready[m] + held[m] + dropped[m] > 0
  <2>1. /\ ready[m] \in Nat /\ held[m] \in Nat /\ dropped[m] \in Nat
        /\ ready'[m] \in Nat /\ held'[m] \in Nat /\ dropped'[m] \in Nat
    BY <1>0, <1>1, <1>2 DEF Facts
  <2>2. ready'[m] + held'[m] <= ready[m] + held[m]
    BY <1>2
  <2>3. CASE dropped'[m] > 0
    BY <2>3
  <2>4. CASE dropped'[m] = 0
    BY <1>5, <2>1, <2>2, <2>4
  <2>5. QED BY <2>1, <2>3, <2>4
<1>6. QED BY <1>1, <1>2, <1>3, <1>4, <1>5 DEF BagsKept

(* A step that leaves the queues alone.                                    *)
LEMMA SameBags ==
    ASSUME IInv, UNCHANGED <<ready, held, dropped>>
    PROVE  BagsKept
<1>1. Facts
  BY IInvFacts
<1>2. ASSUME NEW e \in Event
      PROVE  ready[Forward(e)] + held[Forward(e)] <= ready[Forward(e)] + held[Forward(e)]
  <2>1. ready[Forward(e)] \in Nat /\ held[Forward(e)] \in Nat
    BY <1>1, MessageFacts DEF Facts
  <2>2. QED BY <2>1
<1>3. QED BY <1>1, <1>2 DEF BagsKept, Facts, IInv, OnlyForwardsHeld

(* channel.ack and channel.nack, with all their outcomes.                  *)
LEMMA SettleStep ==
    ASSUME IInv, RowsKept, faults' \in 0..MaxFaults,
           NEW s \in Slot, handler[s].pc \in {"persist", "relay", "confirm"},
           NEW next \in Handler, next.pc \in {"idle", "rejected"},
           next.pc = "rejected" => /\ next.event = handler[s].event
                                   /\ next.pending \subseteq handler[s].pending,
           Ack(s, next) \/ Nack(s, next),
           UNCHANGED <<payload, dropped, broadcast, ws, pub>>
    PROVE  IInv'
<1> DEFINE e == handler[s].event
<1>0. Facts /\ \A t \in Slot : SlotOK(t)
  BY IInvFacts
<1>1. /\ e \in Event /\ pub[e] # "none"
      /\ handler[s].pending \subseteq Recipients(payload[e])
  BY <1>0 DEF SlotOK, Active
<1>2. Forward(e) \in Message /\ Forward(e).path = "forward"
  BY <1>1, MessageFacts DEF Forward
<1>3. handler[s].link \in {"live", "stale"}
  BY <1>0 DEF Facts, Handler
<1>4. ASSUME /\ handler' \in [Slot -> Handler]
             /\ \A t \in Slot \ {s} : /\ handler'[t].pc = handler[t].pc
                                      /\ handler'[t].event = handler[t].event
                                      /\ handler'[t].pending = handler[t].pending
             /\ handler'[s].pc = next.pc /\ handler'[s].event = next.event
             /\ handler'[s].pending = next.pending
      PROVE  \A t \in Slot : SlotOK(t)'
  <2>1. SlotOK(s)'
    BY <1>1, <1>4 DEF SlotOK, Active
  <2>2. \A t \in Slot \ {s} : SlotOK(t)'
    BY <1>4, SlotKept
  <2>3. QED BY <2>1, <2>2
<1>5. CASE Throws(s, next)
  <2>1. handler' = [handler EXCEPT ![s] = next] /\ UNCHANGED <<ready, held, chan>>
    BY <1>5 DEF Throws
  <2>2. BagsKept
    BY <2>1, SameBags
  <2>3. TypesKept
    BY <1>0, <2>1 DEF TypesKept, Facts
  <2>4. OwnersKept
    BY <1>0, <2>1 DEF OwnersKept, Owns, Facts
  <2>5. \A t \in Slot : SlotOK(t)'
    BY <1>0, <1>4, <2>1 DEF Facts
  <2>6. QED BY <2>2, <2>3, <2>4, <2>5, OwnersStep, KeptStep
<1>6. CASE NoAck /\ ProtocolError(s, next)
  <2>1. /\ ready' \in AfterLoss("notifications", ready, held)
        /\ chan' = [chan EXCEPT !["notifications"] = "closed"]
        /\ handler' = Stale([handler EXCEPT ![s] = next])
        /\ held' = held
    BY <1>6 DEF ProtocolError
  <2>2. BagsKept
    <3>1. \A m \in Message : /\ ready[m] <= ready[m]
                             /\ dropped'[m] > 0 => ready[m] + held[m] + dropped[m] > 0
      BY <1>0 DEF Facts
    <3>2. /\ ready \in [Message -> Nat] /\ dropped' \in [Message -> Nat]
          /\ ready' \in AfterLoss("notifications", ready, held)
          /\ held' = HeldAfterLoss("notifications", held) \/ (NoAck /\ held' = held)
      BY <1>0, <1>6, <2>1 DEF Facts
    <3>3. QED BY <3>1, <3>2, LossKeepsBags
  <2>3. [handler EXCEPT ![s] = next] \in [Slot -> Handler]
    BY <1>0 DEF Facts
  <2>4. TypesKept
    BY <1>0, <2>1, <2>3, StaleFacts DEF TypesKept, Facts
  <2>5. OwnersKept
    BY <1>6 DEF OwnersKept
  <2>6. \A t \in Slot : SlotOK(t)'
    BY <1>0, <1>4, <2>1, <2>3, StaleFacts DEF Facts
  <2>7. QED BY <2>2, <2>4, <2>5, <2>6, OwnersStep, KeptStep
<1>7. CASE /\ handler[s].link = "live" /\ ~NoAck
           /\ held' = Minus(held, Forward(e))
           /\ handler' = [handler EXCEPT ![s] = next]
           /\ ready' = ready \/ ready' = Plus(ready, Forward(e))
           /\ chan' = chan
  <2>1. Owns(s, e)
    BY <1>7 DEF Owns
  <2>2. held[Forward(e)] = 1
    BY <1>1, <1>7, <2>1 DEF IInv, SingleOwner
  <2>3. /\ held' \in [Message -> Nat] /\ held'[Forward(e)] = 0
        /\ \A m \in Message \ {Forward(e)} : held'[m] = held[m]
    BY <1>0, <1>2, <1>7, <2>2, MinusFacts DEF Facts
  <2>4. /\ ready' \in [Message -> Nat] /\ ready'[Forward(e)] <= ready[Forward(e)] + 1
        /\ \A m \in Message \ {Forward(e)} : ready'[m] = ready[m]
    <3>1. CASE ready' = ready
      BY <1>0, <1>2, <3>1 DEF Facts
    <3>2. CASE ready' = Plus(ready, Forward(e))
      BY <1>0, <1>2, <3>2, PlusFacts DEF Facts
    <3>3. QED BY <1>7, <3>1, <3>2
  <2>5. BagsKept
    <3>1. \A m \in Message : held'[m] > 0 => m.path = "forward"
      BY <1>2, <2>3 DEF IInv, OnlyForwardsHeld
    <3>2. ASSUME NEW f \in Event
          PROVE  ready'[Forward(f)] + held'[Forward(f)]
                     <= ready[Forward(f)] + held[Forward(f)]
      <4>1. Forward(f) \in Message
        BY MessageFacts
      <4>2. /\ ready[Forward(f)] \in Nat /\ held[Forward(f)] \in Nat
            /\ ready'[Forward(f)] \in Nat /\ held'[Forward(f)] \in Nat
        BY <1>0, <2>3, <2>4, <4>1 DEF Facts
      <4>3. QED BY <2>2, <2>3, <2>4, <4>1, <4>2
    <3>3. \A m \in Message : m # Forward(e) =>
              ready'[m] = ready[m] /\ held'[m] = held[m] /\ dropped'[m] = dropped[m]
      BY <2>3, <2>4
    <3>4. Forward(e).event = e
      BY <1>1, MessageFacts
    <3>5. QED BY <1>0, <1>1, <1>2, <2>3, <2>4, <3>1, <3>2, <3>3, <3>4 DEF BagsKept, Facts
  <2>6. TypesKept
    BY <1>0, <1>7 DEF TypesKept, Facts
  <2>7. OwnersKept
    <3>1. ASSUME NEW t \in Slot, NEW f \in Event, Owns(t, f)'
          PROVE  Owns(t, f) /\ held'[Forward(f)] = held[Forward(f)]
      <4>1. t # s /\ Owns(t, f)
        BY <1>0, <1>7, <3>1 DEF Owns, Facts
      <4>2. f # e
        BY <1>1, <1>7, <2>1, <4>1 DEF IInv, SingleOwner
      <4>3. Forward(f) \in Message \ {Forward(e)}
        BY <1>1, <4>2, MessageFacts
      <4>4. QED BY <2>3, <4>1, <4>3
    <3>2. QED BY <3>1 DEF OwnersKept
  <2>8. \A t \in Slot : SlotOK(t)'
    BY <1>0, <1>4, <1>7 DEF Facts
  <2>9. QED BY <2>5, <2>6, <2>7, <2>8, OwnersStep, KeptStep
<1>8. CASE Ack(s, next)
  BY <1>3, <1>5, <1>6, <1>7, <1>8 DEF Ack
<1>9. CASE Nack(s, next)
  BY <1>3, <1>5, <1>6, <1>7, <1>9 DEF Nack
<1>10. QED BY <1>8, <1>9
(* The rows one save adds.                                                 *)
LEMMA AddRowFacts ==
    ASSUME IInv, NEW s \in Slot, handler[s].pc # "idle", NEW u \in handler[s].pending,
           rows' = rows \/ AddRow(handler[s].event, u)
    PROVE  /\ RowsKept
           /\ AddRow(handler[s].event, u) => rows'[handler[s].event][u] > 0
<1> DEFINE e == handler[s].event
<1>0. Facts /\ SlotOK(s)
  BY IInvFacts
<1>1. e \in Event /\ pub[e] # "none" /\ u \in Recipients(payload[e])
  BY <1>0 DEF SlotOK, Active
<1>2. u \in User
  BY <1>0, <1>1, RecipientsFacts DEF Facts
<1>3. CASE rows' = rows
  BY <1>0, <1>1, <1>2, <1>3 DEF RowsKept, Facts, AddRow
<1>4. CASE AddRow(e, u)
  <2>1. /\ rows' \in [Event -> [User -> Nat]]
        /\ rows'[e][u] = rows[e][u] + 1
        /\ \A f \in Event, v \in User :
              f # e \/ v # u => rows'[f][v] = rows[f][v]
    BY <1>0, <1>1, <1>2, <1>4 DEF AddRow, Facts
  <2>2. rows[e][u] \in Nat
    BY <1>0, <1>1, <1>2 DEF Facts
  <2>3. \A f \in Event, v \in User : rows[f][v] \in Nat
    BY <1>0 DEF Facts
  <2>4. ASSUME NEW f \in Event, NEW v \in User
        PROVE  /\ rows'[f][v] >= rows[f][v]
               /\ rows'[f][v] > 0 =>
                     rows[f][v] > 0 \/ (pub[f] # "none" /\ v \in Recipients(payload[f]))
    <3>1. CASE f = e /\ v = u
      BY <1>1, <2>1, <2>2, <3>1
    <3>2. CASE f # e \/ v # u
      BY <2>1, <2>3, <3>2
    <3>3. QED BY <3>1, <3>2
  <2>5. QED BY <2>1, <2>2, <2>4 DEF RowsKept
<1>5. QED BY <1>3, <1>4

(* A step of the saves: the handler goes on as AfterSave says, or, when    *)
(* the row may be missing, only once the message was rejected.             *)
LEMMA SaveStep ==
    ASSUME IInv, NEW s \in Slot, NEW u \in handler[s].pending,
           \/ handler[s].pc \in {"persist", "rejected"} /\ AddRow(handler[s].event, u)
           \/ handler[s].pc = "rejected" /\ rows' = rows,
           handler' = [handler EXCEPT ![s] = AfterSave(s, u)],
           faults' \in 0..MaxFaults,
           UNCHANGED <<payload, ready, held, dropped, chan, broadcast, ws, pub>>
    PROVE  IInv'
<1> DEFINE e == handler[s].event
           rest == handler[s].pending \ {u}
<1>0. Facts /\ \A t \in Slot : SlotOK(t)
  BY IInvFacts
<1>1. /\ e \in Event /\ pub[e] # "none"
      /\ handler[s].pending \subseteq Recipients(payload[e])
      /\ Recipients(payload[e]) \subseteq User
  BY <1>0, RecipientsFacts DEF SlotOK, Active, Facts
<1>2. /\ RowsKept
      /\ handler[s].pc = "persist" => rows'[e][u] > 0
  BY AddRowFacts
<1>3. /\ AfterSave(s, u) \in Handler
      /\ AfterSave(s, u).link = handler[s].link \/ AfterSave(s, u).pc = "idle"
      /\ AfterSave(s, u).event = e \/ AfterSave(s, u).pc = "idle"
  BY <1>0, <1>1, IdleFacts DEF AfterSave, Handler, Facts
<1>4. handler[s].pc = "rejected" => AfterSave(s, u).pc \in {"rejected", "idle"}
  BY <1>0, IdleFacts DEF AfterSave, Handler, Facts
<1>5. handler'[s] = AfterSave(s, u) /\ \A t \in Slot \ {s} : handler'[t] = handler[t]
  BY <1>0 DEF Facts
<1>6. SlotOK(s)'
  <2>1. CASE rest # {}
    <3>1. handler'[s] = [handler[s] EXCEPT !.pending = rest]
      BY <1>5, <2>1 DEF AfterSave
    <3>2. /\ handler'[s].pc = handler[s].pc /\ handler'[s].event = e
          /\ handler'[s].pending = rest
      BY <1>0, <3>1 DEF Facts, Handler
    <3>3. handler[s].pc = "persist" =>
              \A v \in Recipients(payload[e]) \ rest : rows'[e][v] > 0
      <4>1. SUFFICES ASSUME handler[s].pc = "persist",
                            NEW v \in Recipients(payload[e]) \ rest
                     PROVE  rows'[e][v] > 0
        OBVIOUS
      <4>2. CASE v = u
        BY <1>2, <4>1, <4>2
      <4>3. CASE v # u
        <5>1. rows[e][v] > 0 /\ v \in User
          BY <1>0, <1>1, <4>1, <4>3 DEF SlotOK, Active
        <5>2. QED BY <1>0, <1>1, <1>2, <5>1 DEF RowsKept, Facts
      <4>4. QED BY <4>2, <4>3
    <3>4. QED BY <1>1, <3>2, <3>3 DEF SlotOK, Active
  <2>2. CASE rest = {} /\ handler[s].pc = "persist"
    <3>1. handler'[s] = [handler[s] EXCEPT !.pc = "relay", !.pending = {}]
      BY <1>5, <2>2 DEF AfterSave
    <3>2. handler'[s].pc = "relay" /\ handler'[s].event = e /\ handler'[s].pending = {}
      BY <1>0, <3>1 DEF Facts, Handler
    <3>3. ASSUME NEW v \in Recipients(payload[e])
          PROVE  rows'[e][v] > 0
      <4>1. CASE v = u
        BY <1>2, <2>2, <4>1
      <4>2. CASE v # u
        <5>1. rows[e][v] > 0 /\ v \in User
          BY <1>0, <1>1, <2>2, <4>2 DEF SlotOK, Active
        <5>2. QED BY <1>0, <1>1, <1>2, <5>1 DEF RowsKept, Facts
      <4>3. QED BY <4>1, <4>2
    <3>4. QED BY <1>1, <3>2, <3>3 DEF SlotOK, Active, Stored
  <2>3. CASE rest = {} /\ handler[s].pc # "persist"
    BY <1>5, <2>3, IdleFacts DEF AfterSave, SlotOK, Active
  <2>4. QED BY <2>1, <2>2, <2>3
<1>7. \A t \in Slot : SlotOK(t)'
  BY <1>2, <1>5, <1>6, SlotKept
<1>8. OwnersKept
  <2>1. ASSUME NEW t \in Slot, NEW f \in Event, Owns(t, f)' PROVE Owns(t, f)
    <3>1. CASE t = s
      <4>1. /\ handler'[s].pc # "idle" /\ handler'[s].pc # "rejected"
            /\ handler'[s].link = "live" /\ handler'[s].event = f
        BY <2>1, <3>1 DEF Owns
      <4>2. handler[s].pc = "persist" /\ handler[s].link = "live" /\ e = f
        BY <1>3, <1>4, <1>5, <4>1
      <4>3. QED BY <3>1, <4>2 DEF Owns
    <3>2. CASE t # s
      BY <1>5, <2>1, <3>2 DEF Owns
    <3>3. QED BY <3>1, <3>2
  <2>2. QED BY <2>1 DEF OwnersKept
<1>9. BagsKept
  BY SameBags
<1>10. TypesKept
  BY <1>0, <1>3 DEF TypesKept, Facts
<1>11. QED BY <1>2, <1>7, <1>8, <1>9, <1>10, OwnersStep, KeptStep
(* The actions of the handlers, in the order of NotificationsNext.         *)
LEMMA StartStep ==
    ASSUME IInv, NEW s \in Slot, NEW e \in Event, Start(s, e),
           UNCHANGED <<broadcast, ws, pub>>
    PROVE  IInv'
<1>0. Facts /\ \A t \in Slot : SlotOK(t)
  BY IInvFacts
<1>1. /\ handler[s].pc = "idle" /\ ready[Forward(e)] > 0
      /\ ready' = Minus(ready, Forward(e))
      /\ held' = IF NoAck THEN held ELSE Plus(held, Forward(e))
      /\ handler' = [handler EXCEPT ![s] =
            [pc |-> IF Recipients(payload[e]) = {} THEN "relay" ELSE "persist",
             event |-> e, pending |-> Recipients(payload[e]), link |-> "live"]]
      /\ UNCHANGED <<payload, chan, dropped, faults, rows>>
  BY DEF Start, Deliverable
<1>2. /\ Forward(e) \in Message /\ Forward(e).path = "forward" /\ Forward(e).event = e
      /\ ready[Forward(e)] \in Nat /\ held[Forward(e)] \in Nat
  BY <1>0, MessageFacts DEF Facts, Forward
<1>3. ready[Forward(e)] = 1 /\ held[Forward(e)] = 0 /\ pub[e] = "sent"
  <2>1. /\ ready[Forward(e)] + held[Forward(e)] <= 1
        /\ pub[e] # "sent" => ready[Forward(e)] + held[Forward(e)] = 0
    BY DEF IInv, SingleOwner
  <2>2. QED BY <1>1, <1>2, <2>1
<1>4. Recipients(payload[e]) \subseteq User
  BY <1>0, <1>3, RecipientsFacts DEF Facts
<1>5. /\ ready' \in [Message -> Nat] /\ ready'[Forward(e)] = 0
      /\ \A m \in Message \ {Forward(e)} : ready'[m] = ready[m]
  BY <1>0, <1>1, <1>2, <1>3, MinusFacts DEF Facts
<1>6. /\ held' \in [Message -> Nat]
      /\ held'[Forward(e)] = IF NoAck THEN 0 ELSE 1
      /\ \A m \in Message \ {Forward(e)} : held'[m] = held[m]
  <2>1. CASE NoAck
    BY <1>0, <1>1, <1>3, <2>1 DEF Facts
  <2>2. CASE ~NoAck
    BY <1>0, <1>1, <1>2, <1>3, <2>2, PlusFacts DEF Facts
  <2>3. QED BY <2>1, <2>2
<1>7. BagsKept
  <2>1. ASSUME NEW f \in Event
        PROVE  ready'[Forward(f)] + held'[Forward(f)]
                   <= ready[Forward(f)] + held[Forward(f)]
    <3>1. Forward(f) \in Message /\ ready[Forward(f)] \in Nat /\ held[Forward(f)] \in Nat
      BY <1>0, MessageFacts DEF Facts
    <3>2. QED BY <1>3, <1>5, <1>6, <3>1
  <2>2. \A m \in Message : held'[m] > 0 => m.path = "forward"
    BY <1>2, <1>6 DEF IInv, OnlyForwardsHeld
  <2>3. ASSUME NEW m \in Message, ready'[m] + held'[m] + dropped'[m] > 0
        PROVE  ready[m] + held[m] + dropped[m] > 0
    <3>1. dropped[m] \in Nat
      BY <1>0 DEF Facts
    <3>2. CASE m = Forward(e)
      BY <1>3, <3>1, <3>2
    <3>3. CASE m # Forward(e)
      BY <1>1, <1>5, <1>6, <2>3, <3>3
    <3>4. QED BY <3>2, <3>3
  <2>4. QED BY <1>0, <1>1, <1>5, <1>6, <2>1, <2>2, <2>3 DEF BagsKept, Facts
<1>8. RowsKept
  BY <1>0, <1>1 DEF RowsKept, Facts
<1>9. TypesKept
  BY <1>0, <1>1, <1>4 DEF TypesKept, Facts, Handler
<1>10. \A t \in Slot : SlotOK(t)'
  <2>1. handler'[s] = [pc |-> IF Recipients(payload[e]) = {} THEN "relay" ELSE "persist",
                       event |-> e, pending |-> Recipients(payload[e]), link |-> "live"]
        /\ \A t \in Slot \ {s} : handler'[t] = handler[t]
    BY <1>0, <1>1 DEF Facts
  <2>2. SlotOK(s)'
    BY <1>1, <1>3, <2>1 DEF SlotOK, Active, Stored
  <2>3. QED BY <1>1, <1>8, <2>1, <2>2, SlotKept
<1>11. SingleOwner'
  <2>1. ASSUME NEW f \in Event
        PROVE  /\ (ready[Forward(f)] + held[Forward(f)])' <= 1
               /\ pub[f] # "sent" => (ready[Forward(f)] + held[Forward(f)])' = 0
    <3>1. CASE f = e
      BY <1>3, <1>5, <1>6, <3>1
    <3>2. CASE f # e
      <4>1. Forward(f) \in Message \ {Forward(e)}
        BY <3>2, MessageFacts
      <4>2. QED BY <1>5, <1>6, <4>1 DEF IInv, SingleOwner
    <3>3. QED BY <3>1, <3>2
  <2>2. ASSUME ~NoAck, NEW t \in Slot, NEW f \in Event, Owns(t, f)'
        PROVE  \/ t = s /\ f = e
               \/ t # s /\ f # e /\ Owns(t, f) /\ held'[Forward(f)] = held[Forward(f)]
    <3>1. CASE t = s
      BY <1>0, <1>1, <2>2, <3>1 DEF Owns, Facts
    <3>2. CASE t # s
      <4>1. Owns(t, f)
        BY <1>0, <1>1, <2>2, <3>2 DEF Owns, Facts
      <4>2. held[Forward(f)] = 1
        BY <2>2, <4>1 DEF IInv, SingleOwner
      <4>3. f # e /\ Forward(f) \in Message \ {Forward(e)}
        BY <1>3, <4>2, MessageFacts
      <4>4. QED BY <1>6, <3>2, <4>1, <4>3
    <3>3. QED BY <3>1, <3>2
  <2>3. \A t \in Slot, f \in Event : ~NoAck /\ Owns(t, f)' => held'[Forward(f)] = 1
    BY <1>6, <2>2 DEF IInv, SingleOwner
  <2>4. \A t, r \in Slot, f \in Event : ~NoAck /\ Owns(t, f)' /\ Owns(r, f)' => t = r
    BY <2>2 DEF IInv, SingleOwner
  <2>5. QED BY <1>1, <2>1, <2>3, <2>4 DEF SingleOwner
<1>12. QED BY <1>1, <1>7, <1>8, <1>9, <1>10, <1>11, KeptStep

(* A message without a handler is discarded.                               *)
LEMMA UnhandledStep ==
    ASSUME IInv, NEW m \in Message, Unhandled(m), UNCHANGED <<broadcast, ws, pub>>
    PROVE  IInv'
<1>0. Facts
  BY IInvFacts
<1>1. /\ ready[m] > 0 /\ dropped' = Plus(dropped, m)
      /\ UNCHANGED <<payload, held, faults, rows>>
      /\ chan' = chan \/ chan' = [chan EXCEPT !["notifications"] = "closed"]
      /\ \/ NoAck /\ ready' \in AfterLoss("notifications", Minus(ready, m), held)
                  /\ handler' = Stale(handler)
         \/ ~NoAck /\ ready' = Minus(ready, m) /\ handler' = handler
  BY DEF Unhandled, NoHandler, Deliverable
<1>2. /\ Minus(ready, m) \in [Message -> Nat]
      /\ \A x \in Message : Minus(ready, m)[x] = IF x = m THEN ready[x] - 1 ELSE ready[x]
  BY <1>0, <1>1, MinusFacts DEF Facts
<1>3. /\ dropped' \in [Message -> Nat]
      /\ \A x \in Message \ {m} : dropped'[x] = dropped[x]
  BY <1>0, <1>1, PlusFacts DEF Facts
<1>4. \A x \in Message : /\ Minus(ready, m)[x] <= ready[x]
                         /\ ready[x] \in Nat /\ held[x] \in Nat /\ dropped[x] \in Nat
  BY <1>0, <1>2 DEF Facts
<1>5. \A x \in Message : dropped'[x] > 0 => ready[x] + held[x] + dropped[x] > 0
  BY <1>1, <1>3, <1>4
<1>6. BagsKept
  <2>1. CASE NoAck
    BY <1>0, <1>1, <1>2, <1>3, <1>4, <1>5, <2>1, LossKeepsBags
  <2>2. CASE ~NoAck
    <3>1. ready' = Minus(ready, m) /\ held' = held
      BY <1>1, <2>2
    <3>2. ASSUME NEW f \in Event
          PROVE  ready'[Forward(f)] + held'[Forward(f)]
                     <= ready[Forward(f)] + held[Forward(f)]
      <4>1. /\ Forward(f) \in Message
            /\ ready[Forward(f)] \in Nat /\ held[Forward(f)] \in Nat
        BY <1>0, MessageFacts DEF Facts
      <4>2. ready'[Forward(f)] = ready[Forward(f)] \/ ready'[Forward(f)] = ready[Forward(f)] - 1
        BY <1>2, <3>1, <4>1
      <4>3. QED BY <3>1, <4>1, <4>2
    <3>3. ASSUME NEW x \in Message, ready'[x] + held'[x] + dropped'[x] > 0
          PROVE  ready[x] + held[x] + dropped[x] > 0
      <4>1. CASE x = m
        BY <1>1, <1>4, <4>1
      <4>2. CASE x # m
        BY <1>2, <1>3, <3>1, <3>3, <4>2
      <4>3. QED BY <4>1, <4>2
    <3>4. QED BY <1>0, <1>2, <1>3, <3>1, <3>2, <3>3
          DEF BagsKept, Facts, IInv, OnlyForwardsHeld
  <2>3. QED BY <2>1, <2>2
<1>7. RowsKept
  BY <1>0, <1>1 DEF RowsKept, Facts
<1>8. TypesKept
  BY <1>0, <1>1, StaleFacts DEF TypesKept, Facts
<1>9. \A s \in Slot : SlotOK(s)'
  BY <1>0, <1>1, <1>7, SlotKept, StaleFacts DEF Facts
<1>10. OwnersKept
  BY <1>1 DEF OwnersKept, Owns
<1>11. QED BY <1>1, <1>6, <1>7, <1>8, <1>9, <1>10, OwnersStep, KeptStep

(* A save fails: the first failure rejects the message, a later one does   *)
(* not.                                                                    *)
LEMMA SaveFailsStep ==
    ASSUME IInv, NEW s \in Slot, NEW u \in User, SaveFails(s, u),
           UNCHANGED <<broadcast, ws, pub>>
    PROVE  IInv'
<1>0. Facts
  BY IInvFacts
<1>1. /\ handler[s].pc \in {"persist", "rejected"} /\ u \in handler[s].pending
      /\ rows' = rows \/ AddRow(handler[s].event, u)
      /\ faults' \in 0..MaxFaults /\ UNCHANGED <<payload, dropped>>
  BY <1>0, MaxFaultsAssumption DEF SaveFails, Fault, Facts
<1>2. RowsKept
  BY <1>1, AddRowFacts
<1>3. CASE handler[s].pc = "persist"
  <2>1. Nack(s, AfterFailure(s, u))
    BY <1>3 DEF SaveFails
  <2>2. /\ AfterFailure(s, u) \in Handler
        /\ AfterFailure(s, u).pc \in {"idle", "rejected"}
        /\ AfterFailure(s, u).pc = "rejected" =>
              /\ AfterFailure(s, u).event = handler[s].event
              /\ AfterFailure(s, u).pending \subseteq handler[s].pending
    BY <1>0, IdleFacts DEF AfterFailure, Handler, Facts
  <2>3. QED BY <1>1, <1>2, <1>3, <2>1, <2>2, SettleStep
<1>4. CASE handler[s].pc = "rejected"
  <2>1. /\ handler' = [handler EXCEPT ![s] = AfterSave(s, u)]
        /\ UNCHANGED <<ready, held, chan>>
    BY <1>4 DEF SaveFails
  <2>2. QED BY <1>1, <1>4, <2>1, SaveStep
<1>5. QED BY <1>1, <1>3, <1>4

(* The relay is published once every notification is stored.               *)
LEMMA EmitRelayStep ==
    ASSUME IInv, NEW s \in Slot, EmitRelay(s), UNCHANGED <<broadcast, ws, pub>>
    PROVE  IInv'
<1> DEFINE e == handler[s].event
<1>0. Facts /\ \A t \in Slot : SlotOK(t)
  BY IInvFacts
<1>1. /\ handler[s].pc = "relay" /\ ready' = Plus(ready, Relay(e))
      /\ handler' = [handler EXCEPT ![s].pc = "confirm"]
      /\ UNCHANGED <<payload, held, chan, dropped, faults, rows>>
  BY DEF EmitRelay
<1>2. e \in Event /\ pub[e] # "none" /\ Stored(e)
  BY <1>0, <1>1 DEF SlotOK, Active
<1>3. Relay(e) \in Message /\ Relay(e).event = e
  BY <1>2, MessageFacts
<1>4. /\ ready' \in [Message -> Nat]
      /\ \A m \in Message \ {Relay(e)} : ready'[m] = ready[m]
  <2>1. ready \in [Message -> Nat]
    BY <1>0 DEF Facts
  <2> HIDE DEF e
  <2>2. QED BY <1>1, <1>3, <2>1, PlusFacts
<1>5. BagsKept
  <2>1. ASSUME NEW f \in Event
        PROVE  ready'[Forward(f)] + held'[Forward(f)]
                   <= ready[Forward(f)] + held[Forward(f)]
    <3>1. /\ Forward(f) \in Message \ {Relay(e)}
          /\ ready[Forward(f)] \in Nat /\ held[Forward(f)] \in Nat
      BY <1>0, <1>2, MessageFacts DEF Facts
    <3>2. QED BY <1>1, <1>4, <3>1
  <2>2. \A m \in Message \ {Relay(e)} :
            ready'[m] = ready[m] /\ held'[m] = held[m] /\ dropped'[m] = dropped[m]
    BY <1>1, <1>4
  <2>3. QED BY <1>0, <1>1, <1>2, <1>3, <1>4, <2>1, <2>2
        DEF BagsKept, Facts, IInv, OnlyForwardsHeld
<1>6. RowsKept
  BY <1>0, <1>1 DEF RowsKept, Facts
<1>7. /\ handler'[s] = [handler[s] EXCEPT !.pc = "confirm"]
      /\ \A t \in Slot \ {s} : handler'[t] = handler[t]
  BY <1>0, <1>1 DEF Facts
<1>8. /\ handler'[s].pc = "confirm" /\ handler'[s].event = e
      /\ handler'[s].pending = handler[s].pending /\ handler'[s].link = handler[s].link
  BY <1>0, <1>7 DEF Facts, Handler
<1>9. TypesKept
  <2>1. [handler[s] EXCEPT !.pc = "confirm"] \in Handler /\ handler \in [Slot -> Handler]
    BY <1>0 DEF Facts, Handler
  <2>2. handler' \in [Slot -> Handler]
    BY <1>1, <2>1
  <2>3. QED BY <1>0, <1>1, <2>2 DEF TypesKept, Facts
<1>10. \A t \in Slot : SlotOK(t)'
  <2>1. SlotOK(s)'
    BY <1>0, <1>1, <1>2, <1>8 DEF SlotOK, Active, Stored
  <2>2. QED BY <1>1, <1>6, <1>7, <2>1, SlotKept
<1>11. OwnersKept
  BY <1>1, <1>7, <1>8 DEF OwnersKept, Owns
<1>12. QED BY <1>1, <1>5, <1>6, <1>9, <1>10, <1>11, OwnersStep, KeptStep

(* The channel or the process of notifications-service is lost.            *)
LEMMA NotificationsLossStep ==
    ASSUME IInv, NotificationsChannelLost \/ NotificationsCrash,
           UNCHANGED <<broadcast, ws, pub>>
    PROVE  IInv'
<1>0. Facts
  BY IInvFacts
<1>1. /\ ready' \in AfterLoss("notifications", ready, held)
      /\ held' = HeldAfterLoss("notifications", held)
      /\ chan' = [chan EXCEPT !["notifications"] = "closed"]
      /\ handler' = Stale(handler) \/ handler' = [s \in Slot |-> Idle]
      /\ faults' \in 0..MaxFaults
      /\ UNCHANGED <<payload, dropped, rows>>
  BY <1>0, MaxFaultsAssumption
  DEF NotificationsChannelLost, NotificationsCrash, Fault, Facts
<1>2. \A m \in Message : /\ ready[m] <= ready[m]
                         /\ dropped'[m] > 0 => ready[m] + held[m] + dropped[m] > 0
  BY <1>0, <1>1 DEF Facts
<1>3. BagsKept
  <2>1. ready \in [Message -> Nat] /\ dropped' \in [Message -> Nat]
    BY <1>0, <1>1 DEF Facts
  <2>2. QED BY <1>1, <1>2, <2>1, LossKeepsBags
<1>4. RowsKept
  BY <1>0, <1>1 DEF RowsKept, Facts
<1>5. /\ handler' \in [Slot -> Handler]
      /\ \A s \in Slot : \/ handler'[s].pc = "idle"
                         \/ /\ handler'[s].pc = handler[s].pc
                            /\ handler'[s].event = handler[s].event
                            /\ handler'[s].pending = handler[s].pending
                            /\ handler'[s].link = "stale"
  <2>1. CASE handler' = Stale(handler)
    BY <1>0, <2>1, StaleFacts DEF Facts
  <2>2. CASE handler' = [s \in Slot |-> Idle]
    BY <2>2, IdleFacts
  <2>3. QED BY <1>1, <2>1, <2>2
<1>6. TypesKept
  BY <1>0, <1>1, <1>5 DEF TypesKept, Facts
<1>7. \A s \in Slot : SlotOK(s)'
  BY <1>1, <1>4, <1>5, SlotKept
<1>8. OwnersKept
  BY <1>5 DEF OwnersKept, Owns
<1>9. QED BY <1>1, <1>3, <1>4, <1>6, <1>7, <1>8, OwnersStep, KeptStep

(* Every action of notifications-service preserves the invariant.          *)
LEMMA NotificationsStep ==
    ASSUME IInv, Notifications
    PROVE  IInv'
<1>0. Facts
  BY IInvFacts
<1>1. NotificationsNext /\ UNCHANGED <<broadcast, ws, pub>>
  BY DEF Notifications, gatewayVars
<1>2. ASSUME NEW s \in Slot, NEW e \in Event, Start(s, e) PROVE IInv'
  BY <1>1, <1>2, StartStep
<1>3. ASSUME NEW m \in Message, Unhandled(m) PROVE IInv'
  BY <1>1, <1>3, UnhandledStep
<1>4. ASSUME NEW s \in Slot, NEW u \in User, Save(s, u) PROVE IInv'
  <2>1. /\ handler[s].pc \in {"persist", "rejected"} /\ u \in handler[s].pending
        /\ AddRow(handler[s].event, u)
        /\ handler' = [handler EXCEPT ![s] = AfterSave(s, u)]
        /\ UNCHANGED <<payload, ready, held, chan, dropped, faults>>
    BY <1>4 DEF Save, brokerVars
  <2>2. faults' \in 0..MaxFaults
    BY <1>0, <2>1 DEF Facts
  <2>3. QED BY <1>1, <2>1, <2>2, SaveStep
<1>5. ASSUME NEW s \in Slot, NEW u \in User, SaveFails(s, u) PROVE IInv'
  BY <1>1, <1>5, SaveFailsStep
<1>6. ASSUME NEW s \in Slot, EmitRelay(s) PROVE IInv'
  BY <1>1, <1>6, EmitRelayStep
<1>7. ASSUME NEW s \in Slot, Confirm(s) \/ EmitFails(s) PROVE IInv'
  <2>1. /\ handler[s].pc \in {"persist", "relay", "confirm"}
        /\ Ack(s, Idle) \/ Nack(s, Idle)
        /\ faults' \in 0..MaxFaults
        /\ UNCHANGED <<payload, dropped, rows>>
    BY <1>0, <1>7, MaxFaultsAssumption DEF Confirm, EmitFails, Fault, Facts
  <2>2. RowsKept
    BY <1>0, <2>1 DEF RowsKept, Facts
  <2>3. QED BY <1>1, <2>1, <2>2, IdleFacts, SettleStep
<1>8. CASE NotificationsChannelLost \/ NotificationsCrash
  BY <1>1, <1>8, NotificationsLossStep
<1>9. CASE NotificationsReconnect
  <2>1. /\ chan' = [chan EXCEPT !["notifications"] = "open"]
        /\ UNCHANGED <<payload, ready, held, dropped, faults, handler, rows>>
    BY <1>9 DEF NotificationsReconnect, Reconnect, notificationsVars
  <2>2. BagsKept
    BY <2>1, SameBags
  <2>3. RowsKept /\ TypesKept /\ OwnersKept
    <3>1. RowsKept
      BY <1>0, <2>1 DEF RowsKept, Facts
    <3>2. TypesKept
      BY <1>0, <2>1 DEF TypesKept, Facts
    <3>3. OwnersKept
      BY <2>1 DEF OwnersKept, Owns
    <3>4. QED BY <3>1, <3>2, <3>3
  <2>4. \A s \in Slot : SlotOK(s)'
    BY <2>1, <2>3, SlotKept, <1>1
  <2>5. QED BY <1>1, <2>1, <2>2, <2>3, <2>4, OwnersStep, KeptStep
<1>10. QED
  BY <1>1, <1>2, <1>3, <1>4, <1>5, <1>6, <1>7, <1>8, <1>9 DEF NotificationsNext

-----------------------------------------------------------------------------
(* The theorems.                                                           *)

(* So does every step of the system.                                       *)
LEMMA NextIInv == IInv /\ [Next]_vars => IInv'
<1> SUFFICES ASSUME IInv, [Next]_vars PROVE IInv'
  OBVIOUS
<1>1. CASE Publish
  BY <1>1, PublishStep
<1>2. CASE Notifications
  BY <1>2, NotificationsStep
<1>3. CASE Gateway
  BY <1>3, GatewayStep
<1>4. CASE UNCHANGED vars
  BY <1>4
  DEF vars, brokerVars, notificationsVars, gatewayVars, IInv, TypeOK, BrokerTypeOK,
      NotificationsTypeOK, GatewayTypeOK, OnlyPublished, SingleOwner, Owns, Active,
      OnlyForwardsHeld, Progress, Stored, StoredBeforeRelay, Relayed,
      OnlyConcernedUsersNotified
<1>5. QED BY <1>1, <1>2, <1>3, <1>4 DEF Next

(* The inductive invariant holds in every reachable state, in both         *)
(* acknowledgement modes, for any number of events, users, handlers and    *)
(* failures.                                                               *)
THEOREM Invariance == Spec => []IInv
<1>1. Init => IInv
  BY InitIInv
<1>2. IInv /\ [Next]_vars => IInv'
  BY NextIInv
<1>3. QED BY <1>1, <1>2, PTL DEF Spec

(* Every variable keeps its type: in particular no queue, no unacknowledged *)
(* delivery and no count of notifications goes below zero.                 *)
THEOREM TypeCorrect == Spec => []TypeOK
<1>1. IInv => TypeOK
  BY DEF IInv
<1>2. QED BY <1>1, Invariance, PTL

(* Whatever fails or crashes, what notifications-service put on            *)
(* gateway.events is about an event whose notifications are all stored.    *)
THEOREM PersistThenRelay == Spec => []StoredBeforeRelay
<1>1. IInv => StoredBeforeRelay
  BY DEF IInv
<1>2. QED BY <1>1, Invariance, PTL

(* The acting user is never notified of what they did, nor is anybody the  *)
(* payload does not name.                                                  *)
THEOREM ActorNeverNotified == Spec => []OnlyConcernedUsersNotified
<1>1. IInv => OnlyConcernedUsersNotified
  BY DEF IInv
<1>2. QED BY <1>1, Invariance, PTL

(* A forwarded message has one place at most, and one handler to settle it *)
(* with the broker.                                                        *)
THEOREM OneSettlement == Spec => []SingleOwner
<1>1. IInv => SingleOwner
  BY DEF IInv
<1>2. QED BY <1>1, Invariance, PTL
=============================================================================
